---- MODULE Spec2Model ----
(***************************************************************************)
(* Pitch-detection core of the guitar tuner (src/pitch-detector.js, the    *)
(* browser port of the C# PitchDetector in AudioEngine.cs).                 *)
(*                                                                         *)
(* JavaScript numbers are modelled as exact extended rationals: a finite   *)
(* value n/d in lowest terms, +Infinity, -Infinity or NaN.  A square root  *)
(* that is not rational is kept as the surd sqrt(n/d).  Rounding of        *)
(* IEEE-754 arithmetic is not modelled; the sample values and the          *)
(* configurations used here are exactly representable.                     *)
(***************************************************************************)
EXTENDS Integers, Sequences, FiniteSets, TLC

VARIABLES
    detector,   \* the PitchDetector object: its four fields, or NoDetector
    block,      \* the audio block the audio source delivers to the shell
    input,      \* the buffer passed to the latest detectPitch call
    outcome,    \* how the latest detectPitch call ended
    result,     \* the object returned by the latest detectPitch call
    reads,      \* the array indices read during the latest detectPitch call
    first,      \* outcome and result of the first detectPitch call on block
    interleaved,\* another buffer was passed since that first call
    desktop,    \* outcome and result of DetectPitch (desktop) on input
    actualFrequency, \* the frequency given to the note mapping
    note,       \* the object returned by getNoteFromFrequency (browser)
    musicalNote,\* the MusicalNote returned by GetNoteFromFrequency (desktop)
    centsDisplay, \* the colour class updateUI put on the cents display
    activeStrings, \* data-note of the string items with class 'active'
    activePegs, \* the tuning pegs of MainWindow with ActivePegStyle
    pcCapture,  \* where the capture thread is in AudioEngine_AudioDataAvailable
    pcTick,     \* where the UI thread is in UiUpdateTimer_Tick
    bufferLock, \* the thread inside lock (_bufferLock), or "free"
    eSamples,   \* e.Samples of the event the capture thread is handling
    audioBuffer,\* MainWindow._audioBuffer
    currentRMS, \* MainWindow._currentRMS
    bufferCopy, \* the local bufferCopy of UiUpdateTimer_Tick
    meterRMS,   \* the local rms of UiUpdateTimer_Tick, shown by the level meter
    delivered,  \* the blocks delivered in AudioDataAvailable events so far
    snapshot,   \* what had been delivered when the tick copied the buffer
    detected,   \* the latest DetectPitch call of the desktop shell
    gain,       \* AudioEngine._gain
    eBuffer,    \* e.Buffer of the WaveInEventArgs, as 16-bit PCM values
    converted,  \* the float[] samples OnDataAvailable has filled so far
    eventSamples, \* Samples of the latest AudioDataAvailable event raised
    audioEngine,\* the AudioEngine object: its settings, _isRecording, _disposed
    waveIn,     \* the WaveInEvent that AudioEngine._waveIn refers to, or null
    abandoned,  \* the WaveInEvent objects _waveIn no longer refers to
    lastCall,   \* the latest step on the AudioEngine and how it ended
    mainWindow, \* MainWindow: _isRunning, its timer, and the starts so far
    display,    \* the frequency, cents and peg displays of MainWindow
    analysed,   \* what the latest UiUpdateTimer_Tick copied and detected
    audioCapture, \* the AudioCapture object of app.js, or null
    media,      \* the streams, contexts and nodes of the browser
    captureCall,\* the latest call of an AudioCapture method and how it ended
    app,        \* app.js: isRunning, the start button, the status line
    page,       \* the note, frequency, cents, needle and string displays
    heard       \* the latest audioprocess event and what was done with it

detectorVars ==
    <<detector, block, input, outcome, result, reads, first, interleaved, desktop>>
noteVars ==
    <<actualFrequency, note, musicalNote, centsDisplay, activeStrings, activePegs>>
shellVars == <<pcCapture, pcTick, bufferLock, eSamples, audioBuffer, currentRMS,
               bufferCopy, meterRMS, delivered, snapshot, detected>>
engineVars == <<gain, eBuffer, converted, eventSamples>>
lifecycleVars == <<audioEngine, waveIn, abandoned, lastCall>>
windowVars == <<mainWindow, display, analysed>>
browserVars == <<audioCapture, media, captureCall, app, page, heard>>
vars ==
    <<detectorVars, noteVars, shellVars, engineVars, lifecycleVars, windowVars,
      browserVars>>

\* what the steps of each component leave alone
outsideDetector ==
    <<noteVars, shellVars, engineVars, lifecycleVars, windowVars, browserVars>>
outsideNote ==
    <<detectorVars, shellVars, engineVars, lifecycleVars, windowVars, browserVars>>
outsideShell ==
    <<detectorVars, noteVars, engineVars, lifecycleVars, windowVars, browserVars>>
outsideEngine ==
    <<detectorVars, noteVars, shellVars, lifecycleVars, windowVars, browserVars>>
outsideLifecycle ==
    <<detectorVars, noteVars, shellVars, engineVars, windowVars, browserVars>>
outsideWindow ==
    <<detectorVars, noteVars, engineVars, lifecycleVars, browserVars>>
outsideBrowser ==
    <<detectorVars, noteVars, shellVars, engineVars, lifecycleVars, windowVars>>

(***************************************************************************)
(* Bounds of the model.                                                    *)
(***************************************************************************)
MaxLen == 5
\* the mapped frequencies span OctavesBelow octaves below 440 Hz and
\* OctavesAbove octaves above it, in steps of one cent
OctavesBelow == 6
OctavesAbove == 1
\* the audio source delivers at most MaxDeliveries blocks
MaxDeliveries == 3
\* a WaveInEventArgs buffer holds at most MaxSamples 16-bit samples
MaxSamples == 2
\* at most MaxAbandoned WaveInEvent objects that _waveIn no longer refers
\* to can still reach the engine at one time
MaxAbandoned == 1

(***************************************************************************)
(* Numbers.                                                                *)
(***************************************************************************)
RECURSIVE GCD(_, _)
GCD(a, b) == IF b = 0 THEN a ELSE GCD(b, a % b)

Abs(x) == IF x < 0 THEN -x ELSE x

NaN == [k |-> "nan", n |-> 0, d |-> 1]
PInf == [k |-> "inf", n |-> 1, d |-> 1]
NInf == [k |-> "inf", n |-> -1, d |-> 1]

\* the finite number n/d (d # 0) in lowest terms with a positive denominator
Fin(n, d) ==
    LET g == GCD(Abs(n), Abs(d))
        s == IF d < 0 THEN -1 ELSE 1
    IN [k |-> "fin", n |-> (s * n) \div g, d |-> (s * d) \div g]

Num(i) == [k |-> "fin", n |-> i, d |-> 1]

IsFin(a) == a.k = "fin"
IsNaN(a) == a.k = "nan"
Sign(a) == IF a.n > 0 THEN 1 ELSE IF a.n < 0 THEN -1 ELSE 0

NumNeg(a) == IF a.k = "nan" THEN NaN ELSE [a EXCEPT !.n = -a.n]

NumAdd(a, b) ==
    IF a.k = "nan" \/ b.k = "nan" THEN NaN
    ELSE IF a.k = "inf" /\ b.k = "inf" THEN (IF a.n = b.n THEN a ELSE NaN)
    ELSE IF a.k = "inf" THEN a
    ELSE IF b.k = "inf" THEN b
    ELSE Fin(a.n * b.d + b.n * a.d, a.d * b.d)

NumSub(a, b) == NumAdd(a, NumNeg(b))

NumMul(a, b) ==
    IF a.k = "nan" \/ b.k = "nan" THEN NaN
    ELSE IF a.k = "inf" \/ b.k = "inf"
         THEN (IF Sign(a) * Sign(b) = 0 THEN NaN
               ELSE IF Sign(a) * Sign(b) > 0 THEN PInf ELSE NInf)
    ELSE Fin(a.n * b.n, a.d * b.d)

\* IEEE division; a zero divisor is +0 (no -0 arises from the sums used here)
NumDiv(a, b) ==
    IF a.k = "nan" \/ b.k = "nan" THEN NaN
    ELSE IF a.k = "inf"
         THEN (IF b.k = "inf" THEN NaN
               ELSE IF Sign(a) * (IF Sign(b) < 0 THEN -1 ELSE 1) > 0 THEN PInf ELSE NInf)
    ELSE IF b.k = "inf" THEN Num(0)
    ELSE IF b.n = 0
         THEN (IF a.n = 0 THEN NaN ELSE IF a.n > 0 THEN PInf ELSE NInf)
    ELSE Fin(a.n * b.d, a.d * b.n)

\* a < b; every comparison with NaN is false.  a may be a surd sqrt(n/d).
NumLt(a, b) ==
    IF a.k = "nan" \/ b.k = "nan" THEN FALSE
    ELSE IF a.k = "sqrt"
         THEN (IF b.k = "inf" THEN b.n > 0
               ELSE b.n > 0 /\ a.n * b.d * b.d < b.n * b.n * a.d)
    ELSE IF a.k = "inf" THEN a.n < 0 /\ ~(b.k = "inf" /\ b.n < 0)
    ELSE IF b.k = "inf" THEN b.n > 0
    ELSE a.n * b.d < b.n * a.d

NumGt(a, b) == NumLt(b, a)
NumEq(a, b) == a.k # "nan" /\ b.k # "nan" /\ a = b
NumLe(a, b) == NumLt(a, b) \/ NumEq(a, b)
NumGe(a, b) == NumLe(b, a)

\* Math.floor
NumFloor(a) == IF a.k = "fin" THEN Num(a.n \div a.d) ELSE a

\* Math.min / Math.max: NaN if either argument is NaN
NumMin(a, b) == IF a.k = "nan" \/ b.k = "nan" THEN NaN ELSE IF NumLt(b, a) THEN b ELSE a
NumMax(a, b) == IF a.k = "nan" \/ b.k = "nan" THEN NaN ELSE IF NumLt(a, b) THEN b ELSE a

IsSquare(n) == \E r \in 0..n : r * r = n
Root(n) == CHOOSE r \in 0..n : r * r = n

\* Math.sqrt of a finite number q >= 0
NumSqrt(q) ==
    IF IsSquare(q.n) /\ IsSquare(q.d) THEN Fin(Root(q.n), Root(q.d))
    ELSE [k |-> "sqrt", n |-> q.n, d |-> q.d]

(***************************************************************************)
(* Inputs: sample buffers and constructor arguments.                       *)
(***************************************************************************)
SampleValues == {-1, 0, 1}

Buffers == UNION {[1..n -> SampleValues] : n \in 0..MaxLen}

\* buffers passed to detectPitch between two calls on block
OtherBlocks == {<<>>, <<1, 1, -1, -1>>}

\* arguments the shells and other callers pass to the constructor, as
\* <<sampleRate, minFrequency, maxFrequency, threshold>>: the configurations
\* of the data model ...
AdmissibleArguments ==
    {<<4, 1, maxFrequency, threshold>> :
        maxFrequency \in {2, 4}, threshold \in {Num(0), Fin(1, 2), Num(1)}}

\* ... and arguments outside it: a zero rate, a zero minFrequency, a zero or
\* negative maxFrequency, minFrequency >= maxFrequency, a threshold outside
\* [0, 1]
InadmissibleArguments ==
    {<<0, 1, 2, Num(0)>>, <<4, 0, 2, Num(0)>>, <<4, 1, 0, Num(0)>>,
     <<4, 1, -4, Num(0)>>, <<4, 1, 1, Num(0)>>, <<4, 2, 1, Num(0)>>,
     <<4, 1, 2, Fin(-1, 2)>>, <<4, 1, 2, Fin(3, 2)>>}

ConstructorArguments == AdmissibleArguments \cup InadmissibleArguments

NoDetector == [sampleRate |-> 0, minFrequency |-> 0, maxFrequency |-> 0,
               threshold |-> NaN]

\* DetectorConfig of the data model: positive rates and frequencies,
\* minFrequency < maxFrequency, threshold in [0, 1]
Admissible(det) ==
    /\ det.sampleRate > 0
    /\ det.minFrequency > 0
    /\ det.maxFrequency > 0
    /\ det.minFrequency < det.maxFrequency
    /\ NumLe(Num(0), det.threshold)
    /\ NumLe(det.threshold, Num(1))

(***************************************************************************)
(* PitchDetector (src/pitch-detector.js).                                  *)
(***************************************************************************)
\* constructor(sampleRate, minFrequency, maxFrequency, threshold)
NewPitchDetector(sampleRate, minFrequency, maxFrequency, threshold) ==
    [sampleRate |-> sampleRate, minFrequency |-> minFrequency,
     maxFrequency |-> maxFrequency, threshold |-> threshold]

RECURSIVE SumSquares(_, _, _)
\* sum of samples[i]^2 for i in from..(to - 1), indices from 0
SumSquares(samples, from, to) ==
    IF from >= to THEN 0
    ELSE samples[from + 1] * samples[from + 1] + SumSquares(samples, from + 1, to)

RECURSIVE SumProducts(_, _, _, _)
\* sum of samples[i] * samples[i + lag] for i in from..(to - 1), indices from 0
SumProducts(samples, lag, from, to) ==
    IF from >= to THEN 0
    ELSE samples[from + 1] * samples[from + lag + 1]
         + SumProducts(samples, lag, from + 1, to)

\* calculateRMS(samples)
calculateRMS(samples) ==
    IF Len(samples) = 0 THEN Num(0)
    ELSE NumSqrt(Fin(SumSquares(samples, 0, Len(samples)), Len(samples)))

minLagOf(det) == NumFloor(NumDiv(Num(det.sampleRate), Num(det.maxFrequency)))
maxLagOf(det) == NumFloor(NumDiv(Num(det.sampleRate), Num(det.minFrequency)))

\* Math.min(samples.length, maxLag * 2)
bufferSizeOf(det, samples) ==
    NumMin(Num(Len(samples)), NumMul(maxLagOf(det), Num(2)))

\* new Float32Array(maxLag + 1) throws RangeError for an infinite or a
\* negative length; a NaN length gives an empty array
ArrayLengthInvalid(det) ==
    LET maxLag == maxLagOf(det)
    IN maxLag.k = "inf" \/ (maxLag.k = "fin" /\ maxLag.n + 1 < 0)

autocorrelationLength(det) ==
    LET maxLag == maxLagOf(det)
    IN IF maxLag.k = "fin" THEN maxLag.n + 1 ELSE 0

\* the lags visited by  for (lag = minLag; lag <= maxLag; lag++)
LagRange(det) ==
    LET minLag == minLagOf(det)
        maxLag == maxLagOf(det)
    IN IF minLag.k = "fin" /\ maxLag.k = "fin" THEN minLag.n .. maxLag.n ELSE {}

\* the values of i visited by  for (i = 0; i < bufferSize - lag; i++)
InnerRange(det, samples, lag) ==
    LET bufferSize == bufferSizeOf(det, samples)
    IN IF bufferSize.k = "fin" THEN 0 .. (bufferSize.n - lag - 1) ELSE {}

\* the sample indices read by the autocorrelation loop
AutocorrelationSampleReads(det, samples) ==
    UNION {UNION {{i, i + lag} : i \in InnerRange(det, samples, lag)} :
           lag \in LagRange(det)}

\* the sum accumulated for one lag; a read outside the buffer is undefined
\* and turns the sum into NaN
LagSum(det, samples, lag) ==
    LET inner == InnerRange(det, samples, lag)
    IN IF \E i \in inner : ~({i, i + lag} \subseteq 0 .. (Len(samples) - 1))
       THEN NaN
       ELSE Num(SumProducts(samples, lag, 0, Cardinality(inner)))

\* the Float32Array autocorrelation after the loop: zero outside the lags
\* the loop visited
autocorrelationOf(det, samples) ==
    [lag \in 0 .. (autocorrelationLength(det) - 1) |->
        IF lag \in LagRange(det) THEN LagSum(det, samples, lag) ELSE Num(0)]

\* data[index] of a typed array: undefined outside it (NaN in arithmetic,
\* false in comparisons)
ElementAt(data, index) == IF index \in DOMAIN data THEN data[index] ELSE NaN

RECURSIVE PeakScan(_, _, _, _, _)
PeakScan(data, i, maxLag, maxValue, maxIndex) ==
    IF i > maxLag THEN maxIndex
    ELSE IF NumGt(ElementAt(data, i), maxValue)
         THEN PeakScan(data, i + 1, maxLag, ElementAt(data, i), i)
         ELSE PeakScan(data, i + 1, maxLag, maxValue, maxIndex)

\* findFirstPeak(autocorrelation, minLag, maxLag)
findFirstPeak(data, minLag, maxLag) ==
    IF minLag.k = "fin" /\ maxLag.k = "fin"
    THEN PeakScan(data, minLag.n, maxLag.n, NInf, 0)
    ELSE 0

\* parabolicInterpolation(data, index); length is data.length
InterpolationApplied(length, index) == ~(index <= 0 \/ index >= length - 1)

parabolicInterpolation(data, length, index) ==
    IF ~InterpolationApplied(length, index) THEN Num(index)
    ELSE LET alpha == ElementAt(data, index - 1)
             beta == ElementAt(data, index)
             gamma == ElementAt(data, index + 1)
             offset == NumDiv(NumMul(Fin(1, 2), NumSub(alpha, gamma)),
                              NumAdd(NumSub(alpha, NumMul(Num(2), beta)), gamma))
         IN NumAdd(Num(index), offset)

peakLagOf(det, samples) ==
    findFirstPeak(autocorrelationOf(det, samples), minLagOf(det), maxLagOf(det))

\* autocorrelationPitchDetection(samples)
autocorrelationPitchDetection(det, samples) ==
    LET autocorrelation == autocorrelationOf(det, samples)
        peakLag == findFirstPeak(autocorrelation, minLagOf(det), maxLagOf(det))
        refinedLag == parabolicInterpolation(autocorrelation,
                                             autocorrelationLength(det), peakLag)
    IN IF peakLag = 0 THEN Num(0)
       ELSE NumDiv(Num(det.sampleRate), refinedLag)

\* the autocorrelation indices read by parabolicInterpolation
InterpolationReads(det, samples) ==
    LET peakLag == peakLagOf(det, samples)
    IN IF peakLag # 0 /\ InterpolationApplied(autocorrelationLength(det), peakLag)
       THEN {peakLag - 1, peakLag, peakLag + 1} ELSE {}

periodOf(det, frequency) == NumFloor(NumDiv(Num(det.sampleRate), frequency))

\* Math.min(samples.length - period, period * 2)
countOf(samples, period) ==
    NumMin(NumSub(Num(Len(samples)), period), NumMul(period, Num(2)))

\* does calculateConfidence reach its correlation loop
ConfidenceLoopRuns(det, samples, frequency) ==
    LET period == periodOf(det, frequency)
    IN /\ ~NumLe(frequency, Num(0))
       /\ ~(NumLe(period, Num(0)) \/ NumGe(NumMul(period, Num(2)), Num(Len(samples))))
       /\ period.k = "fin"

\* the sample indices read by the loop of calculateConfidence
ConfidenceSampleReads(det, samples, frequency) ==
    IF ~ConfidenceLoopRuns(det, samples, frequency) THEN {}
    ELSE LET period == periodOf(det, frequency).n
             count == countOf(samples, periodOf(det, frequency)).n
         IN UNION {{i, i + period} : i \in 0 .. (count - 1)}

\* calculateConfidence without the test of the period against half the
\* buffer length
calculateConfidenceAnyPeriod(det, samples, frequency) ==
    IF NumLe(frequency, Num(0)) THEN Num(0)
    ELSE LET period == periodOf(det, frequency)
         IN IF NumLe(period, Num(0)) \/ period.k # "fin" THEN Num(0)
            ELSE LET count == countOf(samples, period).n
                     sum == IF \E i \in 0 .. (count - 1) : i + period.n >= Len(samples)
                            THEN NaN
                            ELSE Num(SumProducts(samples, period.n, 0, count))
                     sumSquares == SumSquares(samples, 0, count)
                 IN IF sumSquares = 0 THEN Num(0)
                    ELSE LET correlation == NumDiv(sum, Num(sumSquares))
                         IN NumMax(Num(0), NumMin(Num(1), correlation))

\* calculateConfidence(samples, frequency)
calculateConfidence(det, samples, frequency) ==
    IF NumLe(frequency, Num(0)) THEN Num(0)
    ELSE LET period == periodOf(det, frequency)
         IN IF NumLe(period, Num(0))
               \/ NumGe(NumMul(period, Num(2)), Num(Len(samples)))
            THEN Num(0)
            ELSE IF period.k # "fin" THEN Num(0)
            ELSE LET count == countOf(samples, period).n
                     sum == IF \E i \in 0 .. (count - 1) : i + period.n >= Len(samples)
                            THEN NaN
                            ELSE Num(SumProducts(samples, period.n, 0, count))
                     sumSquares == SumSquares(samples, 0, count)
                 IN IF sumSquares = 0 THEN Num(0)
                    ELSE LET correlation == NumDiv(sum, Num(sumSquares))
                         IN NumMax(Num(0), NumMin(Num(1), correlation))

\* the object literals returned by detectPitch
PitchResult(frequency, confidence, isValid, rms) ==
    [frequency |-> frequency, confidence |-> confidence, isValid |-> isValid,
     rms |-> rms]

NoResult == PitchResult(NaN, NaN, FALSE, NaN)
\* indices read from samples by the autocorrelation loop and by the
\* confidence loop, and from the autocorrelation array by findFirstPeak and
\* by parabolicInterpolation
NoReads == [acLoop |-> {}, confidenceLoop |-> {}, peakSearch |-> {},
            interpolation |-> {}]

\* return for  !samples || samples.length === 0
EmptyResult == PitchResult(Num(0), Num(0), FALSE, Num(0))

\* rms <= this.threshold
IsSilenceInclusive(det, rms) == ~NumLt(det.threshold, rms)

\* rms < this.threshold
IsSilence(det, rms) == NumLt(rms, det.threshold)

\* return for a signal below the threshold
SilenceResult(rms) == PitchResult(Num(0), Num(0), FALSE, rms)

\* frequency < this.minFrequency || frequency > this.maxFrequency
OutOfRange(det, frequency) ==
    NumLt(frequency, Num(det.minFrequency)) \/ NumGt(frequency, Num(det.maxFrequency))

\* the out-of-range return with the frequency reset to 0
RangeResultZero(frequency, rms) == PitchResult(Num(0), Num(0), FALSE, rms)

\* return for a frequency outside the range
RangeResult(frequency, rms) == PitchResult(frequency, Num(0), FALSE, rms)

\* isValid as  confidence >= 0.5
FullResultInclusive(frequency, confidence, rms) ==
    PitchResult(frequency, confidence, NumGe(confidence, Fin(1, 2)), rms)

\* the final return: isValid is  confidence > 0.5
FullResult(frequency, confidence, rms) ==
    PitchResult(frequency, confidence, NumGt(confidence, Fin(1, 2)), rms)

\* detectPitch(samples): the return statement taken (or the error thrown),
\* the returned object and the indices read on the way
detectPitch(det, samples) ==
    IF Len(samples) = 0
    THEN [outcome |-> "empty", reads |-> NoReads, result |-> EmptyResult]
    ELSE LET rms == calculateRMS(samples)
         IN IF IsSilence(det, rms)
            THEN [outcome |-> "silence", reads |-> NoReads,
                  result |-> SilenceResult(rms)]
            ELSE IF ArrayLengthInvalid(det)
            THEN [outcome |-> "RangeError", reads |-> NoReads, result |-> NoResult]
            ELSE LET frequency == autocorrelationPitchDetection(det, samples)
                     acReads == [acLoop |-> AutocorrelationSampleReads(det, samples),
                                 confidenceLoop |-> {},
                                 peakSearch |-> LagRange(det),
                                 interpolation |-> InterpolationReads(det, samples)]
                 IN IF OutOfRange(det, frequency)
                    THEN [outcome |-> "range", reads |-> acReads,
                          result |-> RangeResult(frequency, rms)]
                    ELSE [outcome |-> "full",
                          reads |-> [acReads EXCEPT !.confidenceLoop =
                              ConfidenceSampleReads(det, samples, frequency)],
                          result |-> FullResult(frequency,
                              calculateConfidence(det, samples, frequency), rms)]

(***************************************************************************)
(* Note mapping (getNoteFromFrequency in src/pitch-detector.js,            *)
(* GetNoteFromFrequency and MusicalNote in AudioEngine.cs).                *)
(*                                                                         *)
(* A positive frequency is kept as its distance in cents from 440 Hz:      *)
(* Tone(c) is 440 * 2^(c/1200) Hz, so that Math.log2 and Math.pow are      *)
(* exact on it.  Zero and negative frequencies are ordinary numbers.       *)
(***************************************************************************)
Tone(c) == [k |-> "tone", n |-> c, d |-> 1]
IsTone(f) == f.k = "tone"

\* frequency <= 0
NotPositive(f) == ~IsTone(f) /\ NumLe(f, Num(0))

\* Math.log2(f / g) of two positive frequencies
Log2Ratio(f, g) == Fin(f.n - g.n, 1200)

\* Math.abs
NumAbs(a) == IF a.k = "fin" THEN Fin(Abs(a.n), a.d) ELSE a

\* integer division and remainder of JavaScript and C#: the quotient is
\* truncated toward zero, the remainder has the sign of the dividend
Truncate(a, b) ==
    LET q == Abs(a) \div Abs(b)
    IN IF (a < 0) = (b < 0) THEN q ELSE -q
Remainder(a, b) == a - b * Truncate(a, b)

\* Math.round of JavaScript rounds a half toward +Infinity
MathRound(x) == NumFloor(NumAdd(x, Fin(1, 2))).n

\* Math.Round of .NET rounds a half to the even neighbour
MathRoundToEven(x) ==
    LET low == NumFloor(x).n
    IN IF NumSub(x, Num(low)) = Fin(1, 2)
       THEN (IF low % 2 = 0 THEN low ELSE low + 1)
       ELSE MathRound(x)

A4 == Tone(0)
A4_MIDI == 69

noteNamesItalian ==
    <<"DO", "DO#", "RE", "RE#", "MI", "FA", "FA#", "SOL", "SOL#", "LA", "LA#", "SI">>
noteNamesAnglo ==
    <<"C", "C#", "D", "D#", "E", "F", "F#", "G", "G#", "A", "A#", "B">>

\* names[index] of a JavaScript array: undefined outside it
NameAt(names, index) ==
    IF index \in 0 .. (Len(names) - 1) THEN names[index + 1] ELSE "undefined"

\* A4 * Math.pow(2, (midiNote - A4_MIDI) / 12.0)
perfectFrequencyOf(midiNote) == Tone(100 * (midiNote - A4_MIDI))

\* the object returned for frequency <= 0: it has no midiNote, isInTune or
\* tuningStatus property
InvalidNote ==
    [noteName |-> "", noteNameAnglo |-> "", octave |-> 0, frequency |-> Num(0),
     actualFrequency |-> Num(0), centsOffset |-> Num(0), isValid |-> FALSE]

\* Math.abs(centsOffset) <= 5 ? 'In Tune' : ...
tuningStatusInclusive(centsOffset) ==
    IF NumLe(NumAbs(centsOffset), Num(5)) THEN "In Tune"
    ELSE IF NumGt(centsOffset, Num(0)) THEN "Sharp" ELSE "Flat"

\* Math.abs(centsOffset) < 5 ? 'In Tune' : (centsOffset > 0 ? 'Sharp' : 'Flat')
tuningStatusOf(centsOffset) ==
    IF NumLt(NumAbs(centsOffset), Num(5)) THEN "In Tune"
    ELSE IF NumGt(centsOffset, Num(0)) THEN "Sharp" ELSE "Flat"

\* midiNote as Math.floor(halfStepsFromA4) + A4_MIDI
midiNoteFloor(halfStepsFromA4) == NumFloor(halfStepsFromA4).n + A4_MIDI
\* midiNote with a half rounded toward -Infinity
midiNoteHalfDown(halfStepsFromA4) ==
    A4_MIDI - NumFloor(NumAdd(NumNeg(halfStepsFromA4), Fin(1, 2))).n

\* Math.round(halfStepsFromA4) + A4_MIDI
midiNoteOf(halfStepsFromA4) == MathRound(halfStepsFromA4) + A4_MIDI

\* static getNoteFromFrequency(frequency)
getNoteFromFrequency(frequency) ==
    IF NotPositive(frequency) THEN InvalidNote
    ELSE LET halfStepsFromA4 == NumMul(Num(12), Log2Ratio(frequency, A4))
             midiNote == midiNoteOf(halfStepsFromA4)
             perfectFrequency == perfectFrequencyOf(midiNote)
             centsOffset == NumMul(Num(1200), Log2Ratio(frequency, perfectFrequency))
             noteIndex == Remainder(midiNote, 12)
             octave == (midiNote \div 12) - 1
         IN [noteName |-> NameAt(noteNamesItalian, noteIndex),
             noteNameAnglo |-> NameAt(noteNamesAnglo, noteIndex),
             octave |-> octave,
             midiNote |-> midiNote,
             frequency |-> perfectFrequency,
             actualFrequency |-> frequency,
             centsOffset |-> centsOffset,
             isValid |-> TRUE,
             isInTune |-> NumLt(NumAbs(centsOffset), Num(5)),
             tuningStatus |-> tuningStatusOf(centsOffset)]

\* note.property of a JavaScript object: undefined when it has none
HasProperty(obj, name) == name \in DOMAIN obj

\* the class updateUI(note) adds to centsDisplay
updateUI(n) ==
    IF HasProperty(n, "isInTune") /\ n.isInTune THEN "in-tune"
    ELSE IF NumLt(n.centsOffset, Num(0)) THEN "flat"
    ELSE "sharp"

\* new MusicalNote { ... }: a property the initializer leaves out keeps its
\* default (0, 0.0f)
MusicalNote(NoteName, NoteNameAnglo, Octave, MidiNote, Frequency, ActualFrequency, CentsOffset, IsValid) ==
    [NoteName |-> NoteName, NoteNameAnglo |-> NoteNameAnglo, Octave |-> Octave,
     MidiNote |-> MidiNote, Frequency |-> Frequency,
     ActualFrequency |-> ActualFrequency, CentsOffset |-> CentsOffset,
     IsValid |-> IsValid]

\* an array access outside noteNamesItalian / noteNamesAnglo
IndexOutOfRangeException == [exception |-> "IndexOutOfRangeException"]
Threw(n) == "exception" \in DOMAIN n

\* public static MusicalNote GetNoteFromFrequency(float frequency)
GetNoteFromFrequency(frequency) ==
    IF NotPositive(frequency)
    THEN MusicalNote("", "", 0, 0, Num(0), Num(0), Num(0), FALSE)
    ELSE LET halfStepsFromA4 == NumMul(Num(12), Log2Ratio(frequency, A4))
             midiNote == MathRoundToEven(halfStepsFromA4) + A4_MIDI
             perfectFrequency == perfectFrequencyOf(midiNote)
             centsOffset == NumMul(Num(1200), Log2Ratio(frequency, perfectFrequency))
             noteIndex == Remainder(midiNote, 12)
             octave == Truncate(midiNote, 12) - 1
         IN IF noteIndex \notin 0 .. (Len(noteNamesItalian) - 1)
            THEN IndexOutOfRangeException
            ELSE MusicalNote(noteNamesItalian[noteIndex + 1],
                             noteNamesAnglo[noteIndex + 1], octave, midiNote,
                             perfectFrequency, frequency, centsOffset, TRUE)

\* MusicalNote.IsInTune
IsInTune(n) == n.IsValid /\ NumLt(NumAbs(n.CentsOffset), Num(5))

\* MusicalNote.TuningStatus
TuningStatus(n) ==
    IF ~n.IsValid THEN ""
    ELSE IF IsInTune(n) THEN "In Tune"
    ELSE IF NumGt(n.CentsOffset, Num(0)) THEN "Sharp" ELSE "Flat"

\* the data-note attributes of document.querySelectorAll('.string-item'): the
\* six strings of the reference panel (E A D G B e) in standard tuning
stringItems == {"E2", "A2", "D3", "G3", "B3", "E4"}

\* const noteKey = note.noteNameAnglo + note.octave
noteKeyOf(n) == n.noteNameAnglo \o ToString(n.octave)

\* highlightString(note): the string items that have class 'active' afterwards
highlightString(n) == {stringNote \in stringItems : stringNote = noteKeyOf(n)}

\* MainWindow._guitarTuning, in enumeration order; Value in thousandths of a Hz
_guitarTuning ==
    <<[Key |-> "E", Value |-> 82410], [Key |-> "A", Value |-> 110000],
      [Key |-> "D", Value |-> 146830], [Key |-> "G", Value |-> 196000],
      [Key |-> "B", Value |-> 246940], [Key |-> "e", Value |-> 329630]>>

\* For the frequencies that the comparisons of FindClosestGuitarString set
\* against a tone, Value - 50, Value + 50 and the midpoint of two Values (in
\* thousandths of a Hz), the largest whole number of cents from A4 of a tone
\* below that frequency: floor(1200 * log2(frequency / 440)).  None of these
\* frequencies is a whole number of cents from A4.
CentsBelow ==
    (32410 :> -4516) @@ (60000 :> -3450) @@ (96205 :> -2632) @@
    (96830 :> -2621) @@ (114620 :> -2329) @@ (128415 :> -2133) @@
    (132410 :> -2079) @@ (139205 :> -1993) @@ (146000 :> -1910) @@
    (153000 :> -1829) @@ (160000 :> -1752) @@ (164675 :> -1702) @@
    (171415 :> -1633) @@ (178470 :> -1563) @@ (196830 :> -1393) @@
    (196885 :> -1393) @@ (196940 :> -1392) @@ (206020 :> -1314) @@
    (219815 :> -1202) @@ (221470 :> -1189) @@ (238230 :> -1063) @@
    (246000 :> -1007) @@ (262815 :> -893) @@ (279630 :> -785) @@
    (288285 :> -733) @@ (296940 :> -681) @@ (379630 :> -256)

\* frequency < milliHz / 1000, for a positive frequency
Below(frequency, milliHz) == frequency.n <= CentsBelow[milliHz]

\* Math.Abs(frequency - a) < Math.Abs(frequency - b), for a # b
Nearer(frequency, a, b) ==
    IF a < b THEN Below(frequency, (a + b) \div 2)
    ELSE ~Below(frequency, (a + b) \div 2)

\* difference < 50
Within50(frequency, value) ==
    ~Below(frequency, value - 50000) /\ Below(frequency, value + 50000)

\* the foreach loop of FindClosestGuitarString from entry i on, closest being
\* the index of the entry that gave minDifference (0: float.MaxValue)
RECURSIVE ClosestFrom(_, _, _)
ClosestFrom(frequency, i, closest) ==
    IF i > Len(_guitarTuning) THEN closest
    ELSE LET value == _guitarTuning[i].Value
             accepted ==
                 /\ closest = 0 \/ Nearer(frequency, value, _guitarTuning[closest].Value)
                 /\ Within50(frequency, value)
         IN ClosestFrom(frequency, i + 1, IF accepted THEN i ELSE closest)

\* private string FindClosestGuitarString(float frequency): null is ""
FindClosestGuitarString(frequency) ==
    LET closest == ClosestFrom(frequency, 1, 0)
    IN IF closest = 0 THEN "" ELSE _guitarTuning[closest].Key

\* private void UpdateGuitarPegs(MusicalNote note): the pegs that have
\* ActivePegStyle afterwards (ResetAllPegs, then at most one HighlightPeg)
UpdateGuitarPegs(n) ==
    IF ~n.IsValid THEN {}
    ELSE LET closestPeg == FindClosestGuitarString(n.ActualFrequency)
         IN IF closestPeg = "" THEN {} ELSE {closestPeg}

(***************************************************************************)
(* PitchDetector of the desktop implementation (AudioEngine.cs).  The      *)
(* rate and the two frequency bounds are C# ints, so the lags, the period  *)
(* and the half length come from integer division; an array access         *)
(* outside the array throws.                                               *)
(***************************************************************************)
\* int minLag = _sampleRate / _maxFrequency, for a divisor that is not zero
MinLag(det) == Truncate(det.sampleRate, det.maxFrequency)

\* int maxLag = _sampleRate / _minFrequency, for a divisor that is not zero
MaxLag(det) == Truncate(det.sampleRate, det.minFrequency)

\* Math.Min(samples.Length, maxLag * 2)
BufferSize(det, samples) ==
    IF Len(samples) < MaxLag(det) * 2 THEN Len(samples) ELSE MaxLag(det) * 2

\* the exception AutocorrelationPitchDetection ends with, "none" if it
\* returns: an int division by zero, a negative array length, or an index
\* outside samples or autocorrelation in the loop
AutocorrelationException(det, samples) ==
    IF det.maxFrequency = 0 \/ det.minFrequency = 0
    THEN "DivideByZeroException"
    ELSE IF MaxLag(det) + 1 < 0 THEN "OverflowException"
    ELSE IF \E lag \in MinLag(det) .. MaxLag(det) :
               \/ lag < 0
               \/ \E i \in 0 .. (BufferSize(det, samples) - lag - 1) :
                     i + lag >= Len(samples)
         THEN "IndexOutOfRangeException"
         ELSE "none"

\* float[] autocorrelation after the loop, when no exception was thrown
Autocorrelation(det, samples) ==
    [lag \in 0 .. MaxLag(det) |->
        IF lag >= MinLag(det)
        THEN Num(SumProducts(samples, lag, 0, BufferSize(det, samples) - lag))
        ELSE Num(0)]

\* FindFirstPeak(autocorrelation, minLag, maxLag): the scan starts from
\* float.MinValue, which no sum of products of samples in [-1, 1] reaches
FindFirstPeak(autocorrelation, minLag, maxLag) ==
    PeakScan(autocorrelation, minLag, maxLag, NInf, 0)

\* ParabolicInterpolation(data, index): float division, so 0/0 is NaN
ParabolicInterpolation(data, index) ==
    IF index <= 0 \/ index >= Cardinality(DOMAIN data) - 1 THEN Num(index)
    ELSE LET alpha == data[index - 1]
             beta == data[index]
             gamma == data[index + 1]
             offset == NumDiv(NumMul(Fin(1, 2), NumSub(alpha, gamma)),
                              NumAdd(NumSub(alpha, NumMul(Num(2), beta)), gamma))
         IN NumAdd(Num(index), offset)

\* AutocorrelationPitchDetection(samples), when no exception was thrown
AutocorrelationPitchDetection(det, samples) ==
    LET autocorrelation == Autocorrelation(det, samples)
        peakLag == FindFirstPeak(autocorrelation, MinLag(det), MaxLag(det))
        refinedLag == ParabolicInterpolation(autocorrelation, peakLag)
    IN IF peakLag = 0 THEN Num(0)
       ELSE NumDiv(Num(det.sampleRate), refinedLag)

\* CalculateConfidence(samples, frequency).  The cast (int) of a quotient
\* that is NaN or infinite is unspecified; the values it produces (0,
\* int.MinValue, int.MaxValue) all take the early return.
CalculateConfidence(det, samples, frequency) ==
    IF NumLe(frequency, Num(0)) THEN Num(0)
    ELSE LET quotient == NumDiv(Num(det.sampleRate), frequency)
         IN IF quotient.k # "fin" THEN Num(0)
            ELSE LET period == Truncate(quotient.n, quotient.d)
                     count == IF Len(samples) - period < period * 2
                              THEN Len(samples) - period ELSE period * 2
                     sum == SumProducts(samples, period, 0, count)
                     sumSquares == SumSquares(samples, 0, count)
                 IN IF period <= 0 \/ period >= Truncate(Len(samples), 2)
                    THEN Num(0)
                    ELSE IF sumSquares = 0 THEN Num(0)
                    ELSE NumMax(Num(0), NumMin(Num(1), Fin(sum, sumSquares)))

\* CalculateRMS(samples)
CalculateRMS(samples) ==
    IF Len(samples) = 0 THEN Num(0)
    ELSE NumSqrt(Fin(SumSquares(samples, 0, Len(samples)), Len(samples)))

\* class PitchDetectionResult; a property the initializer leaves out is 0
PitchDetectionResult(Frequency, Confidence, IsValid, RMS) ==
    [Frequency |-> Frequency, Confidence |-> Confidence, IsValid |-> IsValid,
     RMS |-> RMS]

NoPitchDetectionResult == PitchDetectionResult(NaN, NaN, FALSE, NaN)

NoDesktopCall == [outcome |-> "none", result |-> NoPitchDetectionResult]

\* PitchDetector.DetectPitch(samples) of AudioEngine.cs: the return
\* statement taken (or the exception thrown) and the returned object
PitchDetector_DetectPitch(det, samples) ==
    IF Len(samples) = 0
    THEN [outcome |-> "empty",
          result |-> PitchDetectionResult(Num(0), Num(0), FALSE, Num(0))]
    ELSE LET rms == CalculateRMS(samples)
         IN IF NumLt(rms, det.threshold)
            THEN [outcome |-> "silence",
                  result |-> PitchDetectionResult(Num(0), Num(0), FALSE, rms)]
            ELSE IF AutocorrelationException(det, samples) # "none"
            THEN [outcome |-> AutocorrelationException(det, samples),
                  result |-> NoPitchDetectionResult]
            ELSE LET frequency == AutocorrelationPitchDetection(det, samples)
                     confidence == CalculateConfidence(det, samples, frequency)
                 IN IF NumLt(frequency, Num(det.minFrequency))
                       \/ NumGt(frequency, Num(det.maxFrequency))
                    THEN [outcome |-> "range",
                          result |-> PitchDetectionResult(frequency, Num(0),
                                                          FALSE, rms)]
                    ELSE [outcome |-> "full",
                          result |-> PitchDetectionResult(frequency, confidence,
                              NumGt(confidence, Fin(1, 2)), rms)]

(***************************************************************************)
(* The state machine: one detector is constructed and then called on the   *)
(* delivered block and on other buffers, in any order.                     *)
(***************************************************************************)
NoCall == [outcome |-> "none", result |-> NoResult]

\* no note mapped yet
NoNote == [isValid |-> FALSE, noteName |-> "none"]

\* float[] _audioBuffer before the first block, and float[] bufferCopy = null
NullBuffer == [serial |-> 0, samples |-> <<>>]

NoSnapshot == [delivered |-> 0, pending |-> 0]
NoDetection == [buffer |-> NullBuffer, rms |-> Num(0), delivered |-> 0,
                snapshot |-> NoSnapshot]

\* MainWindow as constructed: not running, the timer stopped, never started;
\* startedAt is the number of blocks delivered before the latest start
NewMainWindow ==
    [isRunning |-> FALSE, timer |-> FALSE, starts |-> 0, startedAt |-> 0]

\* the displays after ResetDisplays(): "-- Hz", "0", no peg highlighted
NeutralDisplay ==
    [frequency |-> [format |-> "-- Hz"], cents |-> [format |-> "0"], pegs |-> {}]

\* no tick yet
NoTick == [buffer |-> NullBuffer, starts |-> 0, startedAt |-> 0]

\* audioCapture = null
NullCapture == [state |-> "null"]

\* new AudioCapture(sampleRate, bufferSize): a field that is null is 0,
\* another one holds the number of the initialize() call that made it
NewAudioCapture ==
    [mediaStream |-> 0, audioContext |-> 0, sourceNode |-> 0, processorNode |-> 0,
     isRecording |-> FALSE, onAudioData |-> FALSE]

\* the browser before any initialize(): made counts the calls that have
\* settled and pending those awaiting getUserMedia; streams are the media
\* streams with a live track, contexts the audio contexts not closed,
\* handlers the processor nodes with an onaudioprocess handler, connected
\* those connected to the destination; initialized tells that initialize()
\* has succeeded on the object and dispose() has not been called since
NoMedia ==
    [made |-> 0, pending |-> 0, streams |-> {}, contexts |-> {}, handlers |-> {},
     connected |-> {}, initialized |-> FALSE]

\* no method of AudioCapture was called yet
NoCaptureCall == [op |-> "none", threw |-> FALSE, initialized |-> FALSE]

\* app.js after DOMContentLoaded in a browser with getUserMedia; pc is where
\* startTuner() is, overlapped tells that a click was handled while it was
\* awaiting initialize()
LoadedApp ==
    [supported |-> TRUE, isRunning |-> FALSE, disabled |-> FALSE, pc |-> "idle",
     label |-> "AVVIA", status |-> "info", overlapped |-> FALSE]

\* the displays as stopTuner() leaves them: '--', '--- Hz', '0 cents', the
\* needle at 50%, no string item active
ResetPage ==
    [detectedNote |-> "--", detecting |-> FALSE,
     frequency |-> [format |-> "--- Hz"],
     centsDisplay |-> [format |-> "0 cents", class |-> ""],
     tuningNeedle |-> Num(50), active |-> {}]

\* no audioprocess event yet
NoEvent ==
    [processor |-> 0, isRecording |-> FALSE, isRunning |-> FALSE, callbacks |-> 0,
     detectPitch |-> 0, getNoteFromFrequency |-> 0, pitch |-> NoResult]

\* the browser shell before its first click
BrowserIdle ==
    /\ audioCapture = NullCapture
    /\ media = NoMedia
    /\ captureCall = NoCaptureCall
    /\ app = LoadedApp
    /\ page = ResetPage
    /\ heard = NoEvent

\* the desktop shell as constructed: no block delivered, no tick running
ShellIdle ==
    /\ mainWindow = NewMainWindow
    /\ display = NeutralDisplay
    /\ analysed = NoTick
    /\ pcCapture = "idle"
    /\ pcTick = "idle"
    /\ bufferLock = "free"
    /\ eSamples = NullBuffer
    /\ audioBuffer = NullBuffer
    /\ currentRMS = Num(0)
    /\ bufferCopy = NullBuffer
    /\ meterRMS = Num(0)
    /\ delivered = <<>>
    /\ snapshot = NoSnapshot
    /\ detected = NoDetection

\* _waveIn == null
NoWaveIn == [state |-> "null"]

\* no WaveInEvent was abandoned: none that is capturing, none that is
\* stopping, no RecordingStopped notification on its way
NoneAbandoned == [capturing |-> 0, stopping |-> 0, notifying |-> 0]

\* new AudioEngine(): the defaults of the constructor
NewAudioEngine ==
    [sampleRate |-> 44100, channels |-> 1, bufferMilliseconds |-> 100,
     selectedDeviceNumber |-> -1, isRecording |-> FALSE, disposed |-> FALSE]

\* no call on the AudioEngine yet
NoEngineCall == [op |-> "none", exception |-> "none"]

\* the audio engine as MainWindow constructs it (Gain = 1.0f), not recording
EngineIdle ==
    /\ gain = Num(1)
    /\ eBuffer = <<>>
    /\ converted = <<>>
    /\ eventSamples = <<>>
    /\ audioEngine = NewAudioEngine
    /\ waveIn = NoWaveIn
    /\ abandoned = NoneAbandoned
    /\ lastCall = NoEngineCall

\* the note mapping is not used
NoteIdle ==
    /\ actualFrequency = Num(0)
    /\ note = NoNote
    /\ musicalNote = NoNote
    /\ centsDisplay = ""
    /\ activeStrings = {}
    /\ activePegs = {}

Init ==
    /\ detector = NoDetector
    /\ block \in Buffers
    /\ input = <<>>
    /\ outcome = "none"
    /\ result = NoResult
    /\ reads = NoReads
    /\ first = NoCall
    /\ interleaved = FALSE
    /\ desktop = NoDesktopCall
    /\ NoteIdle
    /\ ShellIdle
    /\ BrowserIdle
    /\ EngineIdle

\* new PitchDetector(sampleRate, minFrequency, maxFrequency, threshold)
Construct ==
    /\ detector = NoDetector
    /\ \E args \in ConstructorArguments :
          detector' = NewPitchDetector(args[1], args[2], args[3], args[4])
    /\ UNCHANGED <<block, input, outcome, result, reads, first, interleaved, desktop>>
    /\ UNCHANGED outsideDetector

\* the bookkeeping of a call: what it was given, how it ended, and the
\* first outcome seen for block
Record(samples, call) ==
    /\ input' = samples
    /\ outcome' = call.outcome
    /\ result' = call.result
    /\ reads' = call.reads
    /\ first' = IF samples = block /\ first = NoCall
                THEN [outcome |-> call.outcome, result |-> call.result]
                ELSE first
    /\ interleaved' = (interleaved \/ (samples # block /\ first # NoCall))
    /\ desktop' = NoDesktopCall

\* a variant of detectPitch that keeps a noise floor in this.threshold
DetectPitchNoiseFloor ==
    /\ detector # NoDetector
    /\ \E samples \in {block} \cup OtherBlocks :
          \E call \in {detectPitch(detector, samples)} :
             /\ Record(samples, call)
             /\ detector' = IF call.result.rms.k = "fin"
                               /\ NumLt(detector.threshold, call.result.rms)
                            THEN [detector EXCEPT !.threshold = call.result.rms]
                            ELSE detector
    /\ UNCHANGED <<block, outsideDetector>>

\* a variant of detectPitch that rectifies the samples in place before the
\* analysis
DetectPitchInPlace ==
    /\ detector # NoDetector
    /\ \E samples \in {block} \cup OtherBlocks :
          \E call \in {detectPitch(detector, samples)} :
             /\ Record(samples, call)
             /\ block' = IF samples = block
                          THEN [i \in DOMAIN block |-> Abs(block[i])]
                          ELSE block
    /\ UNCHANGED <<detector, outsideDetector>>

\* pitchDetector.detectPitch(samples): no field of the detector and no
\* element of samples is written
DetectPitch ==
    /\ detector # NoDetector
    /\ \E samples \in {block} \cup OtherBlocks :
          \E call \in {detectPitch(detector, samples)} : Record(samples, call)
    /\ UNCHANGED <<detector, block, outsideDetector>>

Next == Construct \/ DetectPitch

Spec == Init /\ [][Next]_vars

(***************************************************************************)
(* The two ports side by side: the desktop detector is given the           *)
(* configuration and the buffer of the latest detectPitch call.            *)
(***************************************************************************)
\* _pitchDetector.DetectPitch(samples) on the buffer the browser port was
\* called with
DetectPitchDesktop ==
    /\ outcome # "none"
    /\ desktop = NoDesktopCall
    /\ desktop' = PitchDetector_DetectPitch(detector, input)
    /\ UNCHANGED <<detector, block, input, outcome, result, reads, first,
                   interleaved, outsideDetector>>

PortNext == Construct \/ DetectPitch \/ DetectPitchDesktop

PortSpec == Init /\ [][PortNext]_vars

(***************************************************************************)
(* The note mapping as a state machine: a frequency is mapped by the       *)
(* browser port and by the desktop port, and the browser shell shows a     *)
(* valid note.                                                             *)
(***************************************************************************)
Frequencies ==
    {Tone(c) : c \in (-1200 * OctavesBelow) .. (1200 * OctavesAbove)}
        \cup {Num(0), Num(-1), Num(-440)}

\* no detector is constructed
DetectorIdle ==
    /\ detector = NoDetector
    /\ block = <<>>
    /\ input = <<>>
    /\ outcome = "none"
    /\ result = NoResult
    /\ reads = NoReads
    /\ first = NoCall
    /\ interleaved = FALSE
    /\ desktop = NoDesktopCall

NoteInit ==
    /\ DetectorIdle
    /\ ShellIdle
    /\ BrowserIdle
    /\ EngineIdle
    /\ actualFrequency \in Frequencies
    /\ note = NoNote
    /\ musicalNote = NoNote
    /\ centsDisplay = ""
    /\ activeStrings = {}
    /\ activePegs = {}

\* const note = PitchDetector.getNoteFromFrequency(result.frequency)
MapFrequency ==
    /\ note' = getNoteFromFrequency(actualFrequency)
    /\ UNCHANGED <<outsideNote, actualFrequency, musicalNote, centsDisplay,
                   activeStrings, activePegs>>

\* if (note.isValid) { updateUI(note); }
ShowNote ==
    /\ note # NoNote
    /\ note.isValid
    /\ centsDisplay' = updateUI(note)
    /\ activeStrings' = highlightString(note)
    /\ UNCHANGED <<outsideNote, actualFrequency, note, musicalNote, activePegs>>

\* var note = PitchDetector.GetNoteFromFrequency(pitchResult.Frequency)
MapFrequencyDesktop ==
    /\ musicalNote' = GetNoteFromFrequency(actualFrequency)
    /\ UNCHANGED <<outsideNote, actualFrequency, note, centsDisplay,
                   activeStrings, activePegs>>

NoteNext == MapFrequency \/ ShowNote \/ MapFrequencyDesktop

NoteSpec == NoteInit /\ [][NoteNext]_vars

(***************************************************************************)
(* The desktop shell (MainWindow): the capture thread runs                 *)
(* AudioEngine_AudioDataAvailable for each delivered block, the UI thread  *)
(* runs UiUpdateTimer_Tick; each statement that touches a shared field is  *)
(* one step.                                                               *)
(***************************************************************************)
\* the sample arrays the audio source delivers
ShellBlocks == {<<>>, <<1>>, <<0, 1>>}

\* a thread enters lock (_bufferLock) whatever the other thread does
LockIgnored == TRUE

\* lock (_bufferLock) can be entered
LockAvailable == bufferLock = "free"

ShellInit ==
    /\ DetectorIdle
    /\ NoteIdle
    /\ ShellIdle
    /\ BrowserIdle
    /\ EngineIdle

\* AudioDataAvailable?.Invoke(this, eventArgs), and the handler's
\* if (e.Samples == null || e.Samples.Length == 0) return;
CaptureDeliver ==
    /\ pcCapture = "idle"
    /\ Len(delivered) < MaxDeliveries
    /\ \E samples \in ShellBlocks :
          \E e \in {[serial |-> Len(delivered) + 1, samples |-> samples]} :
             /\ delivered' = Append(delivered, e)
             /\ eSamples' = e
             /\ pcCapture' = IF Len(samples) = 0 THEN "idle" ELSE "lock"
    /\ UNCHANGED <<pcTick, bufferLock, audioBuffer, currentRMS, bufferCopy,
                   meterRMS, snapshot, detected>>
    /\ UNCHANGED outsideShell

\* lock (_bufferLock) {   in the handler
CaptureLock ==
    /\ pcCapture = "lock"
    /\ LockAvailable
    /\ bufferLock' = "capture"
    /\ pcCapture' = "clone"
    /\ UNCHANGED <<pcTick, eSamples, audioBuffer, currentRMS, bufferCopy,
                   meterRMS, delivered, snapshot, detected>>
    /\ UNCHANGED outsideShell

\* _audioBuffer = (float[])e.Samples.Clone();
CaptureClone ==
    /\ pcCapture = "clone"
    /\ audioBuffer' = eSamples
    /\ pcCapture' = "rms"
    /\ UNCHANGED <<pcTick, bufferLock, eSamples, currentRMS, bufferCopy,
                   meterRMS, delivered, snapshot, detected>>
    /\ UNCHANGED outsideShell

\* _currentRMS = CalculateRMS(_audioBuffer); }
CaptureRMS ==
    /\ pcCapture = "rms"
    /\ currentRMS' = calculateRMS(audioBuffer.samples)
    /\ bufferLock' = "free"
    /\ pcCapture' = "idle"
    /\ UNCHANGED <<pcTick, eSamples, audioBuffer, bufferCopy, meterRMS,
                   delivered, snapshot, detected>>
    /\ UNCHANGED outsideShell

\* float[] bufferCopy = null; float rms = 0; lock (_bufferLock) {
TickLock ==
    /\ pcTick = "idle"
    /\ LockAvailable
    /\ bufferCopy' = NullBuffer
    /\ meterRMS' = Num(0)
    /\ bufferLock' = "tick"
    /\ pcTick' = "copy"
    /\ UNCHANGED <<pcCapture, eSamples, audioBuffer, currentRMS, delivered,
                   snapshot, detected>>
    /\ UNCHANGED outsideShell

\* if (_audioBuffer != null) bufferCopy = (float[])_audioBuffer.Clone();
TickCopy ==
    /\ pcTick = "copy"
    /\ bufferCopy' = audioBuffer
    /\ snapshot' = [delivered |-> Len(delivered),
                    pending |-> IF pcCapture \in {"lock", "clone"}
                                THEN eSamples.serial ELSE 0]
    /\ pcTick' = "rms"
    /\ UNCHANGED <<pcCapture, bufferLock, eSamples, audioBuffer, currentRMS,
                   meterRMS, delivered, detected>>
    /\ UNCHANGED outsideShell

\* rms = _currentRMS; }
TickReadRMS ==
    /\ pcTick = "rms"
    /\ meterRMS' = currentRMS
    /\ bufferLock' = "free"
    /\ pcTick' = "process"
    /\ UNCHANGED <<pcCapture, eSamples, audioBuffer, currentRMS, bufferCopy,
                   delivered, snapshot, detected>>
    /\ UNCHANGED outsideShell

\* UpdateLevelMeter(rms); then ProcessAudioAndUpdateUI(bufferCopy), which
\* calls _pitchDetector.DetectPitch(samples), or ResetDisplays()
TickProcess ==
    /\ pcTick = "process"
    /\ detected' = IF bufferCopy # NullBuffer /\ Len(bufferCopy.samples) > 0
                   THEN [buffer |-> bufferCopy, rms |-> meterRMS,
                         delivered |-> Len(delivered), snapshot |-> snapshot]
                   ELSE detected
    /\ pcTick' = "idle"
    /\ UNCHANGED <<pcCapture, bufferLock, eSamples, audioBuffer, currentRMS,
                   bufferCopy, meterRMS, delivered, snapshot>>
    /\ UNCHANGED outsideShell

ShellNext ==
    \/ CaptureDeliver \/ CaptureLock \/ CaptureClone \/ CaptureRMS
    \/ TickLock \/ TickCopy \/ TickReadRMS \/ TickProcess

ShellSpec == ShellInit /\ [][ShellNext]_vars

(***************************************************************************)
(* The desktop audio source (AudioEngine): the capture thread converts a   *)
(* buffer of 16-bit PCM samples one sample at a time while the UI thread   *)
(* may set the gain.                                                       *)
(***************************************************************************)
\* 16-bit PCM sample values: the two ends of the range, zero and half scale
PcmValues == {-32768, 0, 16384, 32767}

PcmBuffers == UNION {[1..n -> PcmValues] : n \in 0..MaxSamples}

\* values assigned to AudioEngine.Gain: inside [0, 10] and outside it
GainValues == {Num(0), Num(1), Num(2), Num(10), Num(-1), Num(11)}

\* the sample after the gain, not clamped
Unclamped(x) == x

\* if (samples[i] > 1.0f) samples[i] = 1.0f;
\* else if (samples[i] < -1.0f) samples[i] = -1.0f;
Clamp(x) ==
    IF NumGt(x, Num(1)) THEN Num(1)
    ELSE IF NumLt(x, Num(-1)) THEN Num(-1)
    ELSE x

\* one pass of the conversion loop for the 16-bit value sample
ConvertedSample(sample) == Clamp(NumMul(Fin(sample, 32768), gain))

EngineInit ==
    /\ DetectorIdle
    /\ NoteIdle
    /\ ShellIdle
    /\ BrowserIdle
    /\ EngineIdle

\* AudioEngine.Gain = value: a value outside [0, 10] throws
\* ArgumentOutOfRangeException and leaves _gain as it was
SetGain ==
    /\ \E value \in GainValues :
          gain' = IF NumLt(value, Num(0)) \/ NumGt(value, Num(10))
                  THEN gain ELSE value
    /\ UNCHANGED <<eBuffer, converted, eventSamples>>
    /\ UNCHANGED outsideEngine

\* OnDataAvailable(sender, e) is entered; it returns at once if
\* e.BytesRecorded == 0
OnDataAvailable ==
    /\ eBuffer = <<>>
    /\ \E buffer \in PcmBuffers :
          /\ eBuffer' = buffer
          /\ eventSamples' = IF Len(buffer) = 0 THEN eventSamples ELSE <<>>
    /\ converted' = <<>>
    /\ UNCHANGED gain
    /\ UNCHANGED outsideEngine

\* one iteration of  for (int i = 0; i < sampleCount; i++)
ConvertSample ==
    /\ eBuffer # <<>>
    /\ Len(converted) < Len(eBuffer)
    /\ converted' = Append(converted, ConvertedSample(eBuffer[Len(converted) + 1]))
    /\ UNCHANGED <<gain, eBuffer, eventSamples>>
    /\ UNCHANGED outsideEngine

\* AudioDataAvailable?.Invoke(this, eventArgs) with Samples = samples
RaiseAudioDataAvailable ==
    /\ eBuffer # <<>>
    /\ Len(converted) = Len(eBuffer)
    /\ eventSamples' = converted
    /\ eBuffer' = <<>>
    /\ converted' = <<>>
    /\ UNCHANGED gain
    /\ UNCHANGED outsideEngine

EngineNext ==
    SetGain \/ OnDataAvailable \/ ConvertSample \/ RaiseAudioDataAvailable

EngineSpec == EngineInit /\ [][EngineNext]_vars

(***************************************************************************)
(* The life cycle of the AudioEngine (AudioEngine.cs): its four settings,  *)
(* StartRecording, StopRecording, Dispose and the RecordingStopped         *)
(* notification.  WaveInEvent is the capture device of NAudio: any call    *)
(* on it may throw, it keeps capturing until it is stopped or fails, and   *)
(* it raises RecordingStopped to its subscribers when its record thread    *)
(* ends, some time after the call that stopped it has returned.            *)
(***************************************************************************)
\* values given to the four setters
SampleRates == {44100, 48000}
ChannelCounts == {1, 2}
BufferDurations == {100, 50}
\* WaveInEvent.DeviceCount
DeviceCount == 1
DeviceNumbers == {-2, -1, 0, DeviceCount}

\* what new WaveInEvent { DeviceNumber, WaveFormat, BufferMilliseconds } is
\* given
FormatOf(e) ==
    [sampleRate |-> e.sampleRate, channels |-> e.channels,
     bufferMilliseconds |-> e.bufferMilliseconds,
     deviceNumber |-> e.selectedDeviceNumber]

\* a WaveInEvent: what it was created with, whether it is capturing,
\* stopping or stopped, whether OnDataAvailable and OnRecordingStopped are
\* subscribed, and whether a RecordingStopped notification is on its way to
\* OnRecordingStopped
WaveInEvent(format, state, subscribed, notification) ==
    [format |-> format, state |-> state, subscribed |-> subscribed,
     notification |-> notification]

Total(left) == left.capturing + left.stopping + left.notifying

\* _waveIn = new WaveInEvent { ... } drops the reference to the earlier
\* device d, which is neither stopped nor disposed by it.  Of such a device
\* only what can still reach the engine is kept: that it captures or is
\* stopping (and will notify), or that its notification is on its way.
Abandon(d, left) ==
    IF d = NoWaveIn \/ ~d.subscribed THEN left
    ELSE IF d.state = "capturing" THEN [left EXCEPT !.capturing = @ + 1]
    ELSE IF d.state = "stopping" THEN [left EXCEPT !.stopping = @ + 1]
    ELSE IF d.notification THEN [left EXCEPT !.notifying = @ + 1]
    ELSE left

\* the step taken on the engine: the call or callback and the exception it
\* ended with
EngineCall(op, exception) == [op |-> op, exception |-> exception]

\* a setter that never refuses while recording
SettingNeverRejected(e) == FALSE

\* if (_isRecording) throw new InvalidOperationException(...)
SettingRejected(e) == e.isRecording

\* the exception a setter ends with
SetterException(e) ==
    IF SettingRejected(e) THEN "InvalidOperationException" ELSE "none"

\* AudioEngine.SampleRate = value
SetSampleRate ==
    /\ \E value \in SampleRates :
          audioEngine' = IF SettingRejected(audioEngine) THEN audioEngine
                         ELSE [audioEngine EXCEPT !.sampleRate = value]
    /\ lastCall' = EngineCall("set_SampleRate", SetterException(audioEngine))
    /\ UNCHANGED <<waveIn, abandoned, outsideLifecycle>>

\* AudioEngine.Channels = value
SetChannels ==
    /\ \E value \in ChannelCounts :
          audioEngine' = IF SettingRejected(audioEngine) THEN audioEngine
                         ELSE [audioEngine EXCEPT !.channels = value]
    /\ lastCall' = EngineCall("set_Channels", SetterException(audioEngine))
    /\ UNCHANGED <<waveIn, abandoned, outsideLifecycle>>

\* AudioEngine.BufferMilliseconds = value
SetBufferMilliseconds ==
    /\ \E value \in BufferDurations :
          audioEngine' = IF SettingRejected(audioEngine) THEN audioEngine
                         ELSE [audioEngine EXCEPT !.bufferMilliseconds = value]
    /\ lastCall' = EngineCall("set_BufferMilliseconds",
                              SetterException(audioEngine))
    /\ UNCHANGED <<waveIn, abandoned, outsideLifecycle>>

\* AudioEngine.SelectedDeviceNumber = value: refused while recording, and
\* for a value below -1 or not below WaveInEvent.DeviceCount
SetSelectedDeviceNumber ==
    /\ \E value \in DeviceNumbers :
          \E exception \in {IF SettingRejected(audioEngine)
                            THEN "InvalidOperationException"
                            ELSE IF value < -1 \/ value >= DeviceCount
                            THEN "ArgumentOutOfRangeException"
                            ELSE "none"} :
             /\ audioEngine' = IF exception # "none" THEN audioEngine
                               ELSE [audioEngine EXCEPT
                                        !.selectedDeviceNumber = value]
             /\ lastCall' = EngineCall("set_SelectedDeviceNumber", exception)
    /\ UNCHANGED <<waveIn, abandoned, outsideLifecycle>>

\* a clean-up that leaves the device in place
ReleaseSkipped(d, left) == [waveIn |-> d, abandoned |-> left]

\* if (_waveIn != null) { unsubscribe both handlers; _waveIn.Dispose();
\* _waveIn = null; }  -- in the catch block of StartRecording and in
\* Dispose.  A notification that was already on its way still arrives.
ReleaseWaveIn(d, left) ==
    IF d = NoWaveIn THEN [waveIn |-> d, abandoned |-> left]
    ELSE [waveIn |-> NoWaveIn,
          abandoned |-> IF d.notification
                        THEN [left EXCEPT !.notifying = @ + 1] ELSE left]

\* AudioEngine.StartRecording()
StartRecording ==
    \/ /\ audioEngine.disposed
       /\ lastCall' = EngineCall("StartRecording", "ObjectDisposedException")
       /\ UNCHANGED <<audioEngine, waveIn, abandoned, outsideLifecycle>>
    \/ /\ ~audioEngine.disposed
       /\ audioEngine.isRecording
       /\ lastCall' = EngineCall("StartRecording",
                                 "InvalidOperationException: Already recording.")
       /\ UNCHANGED <<audioEngine, waveIn, abandoned, outsideLifecycle>>
    \/ /\ ~audioEngine.disposed
       /\ ~audioEngine.isRecording
       /\ LET left == Abandon(waveIn, abandoned)
              created == WaveInEvent(FormatOf(audioEngine), "stopped", TRUE, FALSE)
              released == ReleaseWaveIn(created, left)
          IN /\ Total(left) <= MaxAbandoned
             /\ \/ \* _waveIn.StartRecording() returns
                   /\ waveIn' = [created EXCEPT !.state = "capturing"]
                   /\ abandoned' = left
                   /\ audioEngine' = [audioEngine EXCEPT !.isRecording = TRUE]
                   /\ lastCall' = EngineCall("StartRecording", "none")
                \/ \* _waveIn.StartRecording() throws
                   /\ waveIn' = released.waveIn
                   /\ abandoned' = released.abandoned
                   /\ lastCall' = EngineCall("StartRecording",
                         "InvalidOperationException: Failed to start recording.")
                   /\ UNCHANGED audioEngine
       /\ UNCHANGED outsideLifecycle
    \/ \* new WaveInEvent { ... } throws: _waveIn is still the earlier device
       /\ ~audioEngine.disposed
       /\ ~audioEngine.isRecording
       /\ LET released == ReleaseWaveIn(waveIn, abandoned)
          IN /\ Total(released.abandoned) <= MaxAbandoned
             /\ waveIn' = released.waveIn
             /\ abandoned' = released.abandoned
       /\ lastCall' = EngineCall("StartRecording",
             "InvalidOperationException: Failed to start recording.")
       /\ UNCHANGED <<audioEngine, outsideLifecycle>>

\* the body of StopRecording after the _disposed check: the engine and the
\* device it can leave.  _waveIn.StopRecording() returns, or it throws, the
\* exception is caught and _isRecording keeps its value; a stopped device
\* ignores the call.
StopRecordingBody(e, d) ==
    IF ~e.isRecording THEN {[engine |-> e, waveIn |-> d]}
    ELSE IF d = NoWaveIn
    THEN {[engine |-> [e EXCEPT !.isRecording = FALSE], waveIn |-> d]}
    ELSE LET stopping == IF d.state = "stopped" THEN d
                         ELSE [d EXCEPT !.state = "stopping"]
         IN {[engine |-> [e EXCEPT !.isRecording = FALSE], waveIn |-> stopping]}
            \cup (IF d.state = "stopped" THEN {}
                  ELSE {[engine |-> e, waveIn |-> d],
                        [engine |-> e, waveIn |-> stopping]})

\* AudioEngine.StopRecording()
StopRecording ==
    \/ /\ audioEngine.disposed
       /\ lastCall' = EngineCall("StopRecording", "ObjectDisposedException")
       /\ UNCHANGED <<audioEngine, waveIn, abandoned, outsideLifecycle>>
    \/ /\ ~audioEngine.disposed
       /\ \E stopped \in StopRecordingBody(audioEngine, waveIn) :
             /\ audioEngine' = stopped.engine
             /\ waveIn' = stopped.waveIn
       /\ lastCall' = EngineCall("StopRecording", "none")
       /\ UNCHANGED <<abandoned, outsideLifecycle>>

\* AudioEngine.Dispose(): Dispose(true)
Dispose ==
    \/ /\ audioEngine.disposed
       /\ lastCall' = EngineCall("Dispose", "none")
       /\ UNCHANGED <<audioEngine, waveIn, abandoned, outsideLifecycle>>
    \/ /\ ~audioEngine.disposed
       /\ \E stopped \in StopRecordingBody(audioEngine, waveIn) :
             \/ \* _waveIn.Dispose() returns, or there is no device
                /\ LET released == ReleaseWaveIn(stopped.waveIn, abandoned)
                   IN /\ Total(released.abandoned) <= MaxAbandoned
                      /\ waveIn' = released.waveIn
                      /\ abandoned' = released.abandoned
                /\ audioEngine' = [stopped.engine EXCEPT !.disposed = TRUE]
                /\ lastCall' = EngineCall("Dispose", "none")
             \/ \* _waveIn.Dispose() stops a device that is not stopped, and
                \* the stop throws: Dispose ends with that exception
                /\ stopped.waveIn # NoWaveIn
                /\ stopped.waveIn.state # "stopped"
                /\ audioEngine' = stopped.engine
                /\ waveIn' = [stopped.waveIn EXCEPT !.subscribed = FALSE]
                /\ lastCall' = EngineCall("Dispose", "MmException")
                /\ UNCHANGED abandoned
       /\ UNCHANGED outsideLifecycle

\* the record thread of a device ends, after StopRecording or on a device
\* error: the device is stopped and raises RecordingStopped to its
\* subscribers
RecordThreadEnds ==
    /\ \/ /\ waveIn # NoWaveIn
          /\ waveIn.state \in {"capturing", "stopping"}
          /\ waveIn' = [waveIn EXCEPT !.state = "stopped",
                                      !.notification = waveIn.subscribed]
          /\ UNCHANGED abandoned
       \/ /\ abandoned.capturing > 0
          /\ abandoned' = [abandoned EXCEPT !.capturing = @ - 1,
                                            !.notifying = @ + 1]
          /\ UNCHANGED waveIn
       \/ /\ abandoned.stopping > 0
          /\ abandoned' = [abandoned EXCEPT !.stopping = @ - 1,
                                            !.notifying = @ + 1]
          /\ UNCHANGED waveIn
    /\ lastCall' = EngineCall("RecordThreadEnds", "none")
    /\ UNCHANGED <<audioEngine, outsideLifecycle>>

\* OnRecordingStopped(sender, e): the notification of one device arrives
OnRecordingStopped ==
    /\ \/ /\ waveIn # NoWaveIn
          /\ waveIn.notification
          /\ waveIn' = [waveIn EXCEPT !.notification = FALSE]
          /\ UNCHANGED abandoned
       \/ /\ abandoned.notifying > 0
          /\ abandoned' = [abandoned EXCEPT !.notifying = @ - 1]
          /\ UNCHANGED waveIn
    /\ audioEngine' = [audioEngine EXCEPT !.isRecording = FALSE]
    /\ lastCall' = EngineCall("OnRecordingStopped", "none")
    /\ UNCHANGED outsideLifecycle

LifecycleInit ==
    /\ DetectorIdle
    /\ NoteIdle
    /\ ShellIdle
    /\ BrowserIdle
    /\ EngineIdle

LifecycleNext ==
    \/ SetSampleRate
    \/ SetChannels
    \/ SetBufferMilliseconds
    \/ SetSelectedDeviceNumber
    \/ StartRecording
    \/ StopRecording
    \/ Dispose
    \/ RecordThreadEnds
    \/ OnRecordingStopped

LifecycleSpec == LifecycleInit /\ [][LifecycleNext]_vars

(***************************************************************************)
(* The note display of the two shells: a valid detection result is mapped  *)
(* to a note and shown (processAudio and updateUI in src/app.js,           *)
(* ProcessAudioAndUpdateUI in MainWindow).  The same tone is played to     *)
(* both shells; each is stopped or loses the pitch on its own.             *)
(***************************************************************************)
\* the frequencies of the valid detection results: a fifth of a semitone apart
DetectedFrequencies ==
    {Tone(20 * i) : i \in (-60 * OctavesBelow) .. (60 * OctavesAbove)}

TunerInit ==
    /\ DetectorIdle
    /\ ShellIdle
    /\ BrowserIdle
    /\ EngineIdle
    /\ NoteIdle

\* function processAudio(samples), result.isValid && result.frequency > 0
processAudio(frequency) ==
    /\ note' = getNoteFromFrequency(frequency)
    /\ IF note'.isValid
       THEN /\ centsDisplay' = updateUI(note')
            /\ activeStrings' = highlightString(note')
       ELSE UNCHANGED <<centsDisplay, activeStrings>>

\* private void ProcessAudioAndUpdateUI(float[] samples), pitchResult.IsValid
\* && pitchResult.Frequency > 0; an exception of GetNoteFromFrequency ends it
ProcessAudioAndUpdateUI(frequency) ==
    /\ musicalNote' = GetNoteFromFrequency(frequency)
    /\ activePegs' =
           IF Threw(musicalNote') THEN activePegs
           ELSE UpdateGuitarPegs(musicalNote')

\* a pitch is detected in both shells
Detected ==
    \E frequency \in DetectedFrequencies :
        /\ actualFrequency' = frequency
        /\ processAudio(frequency)
        /\ ProcessAudioAndUpdateUI(frequency)
        /\ UNCHANGED outsideNote

\* function stopTuner(): the displays are reset
stopTuner ==
    /\ centsDisplay' = ""
    /\ activeStrings' = {}
    /\ UNCHANGED <<outsideNote, actualFrequency, note, musicalNote, activePegs>>

\* ProcessAudioAndUpdateUI without a valid pitch: ResetDisplays()
ResetDisplays ==
    /\ activePegs' = {}
    /\ UNCHANGED <<outsideNote, actualFrequency, note, musicalNote, centsDisplay,
                   activeStrings>>

TunerNext == Detected \/ stopTuner \/ ResetDisplays

TunerSpec == TunerInit /\ [][TunerNext]_vars

(***************************************************************************)
(* MainWindow as a whole: the Start/Stop button, the RecordingStopped      *)
(* event, the blocks of the capture thread and the timer tick, each        *)
(* handler one step (the handlers of the UI thread run one after the       *)
(* other, and lock (_bufferLock) makes the store and the copy of           *)
(* _audioBuffer atomic).  A block stands for its samples by the result     *)
(* DetectPitch gives on them.                                              *)
(***************************************************************************)
MaxStarts == 2

\* DetectPitch results of the blocks: silence, a frequency out of range, a
\* valid E2 (82.41 Hz), a valid B5 (987.77 Hz)
BlockPitches ==
    {PitchDetectionResult(Num(0), Num(0), FALSE, Num(0)),
     PitchDetectionResult(Tone(2400), Num(0), FALSE, Num(1)),
     PitchDetectionResult(Tone(-2900), Num(1), TRUE, Num(1)),
     PitchDetectionResult(Tone(1400), Num(1), TRUE, Num(1))}

\* e.Samples of an AudioDataAvailable event: empty, or samples with their pitch
WindowBlocks ==
    {[samples |-> <<>>, pitch |-> PitchDetectionResult(Num(0), Num(0), FALSE, Num(0))]}
        \cup {[samples |-> <<1>>, pitch |-> p] : p \in BlockPitches}

\* FrequencyDisplay.Text = $"{frequency:F2} Hz"
UpdateFrequencyDisplay(frequency) == [format |-> "F2 Hz", value |-> frequency]

\* CentsDisplay.Text = $"{sign}{cents:F1}"
UpdateCentsDisplay(cents) == [format |-> "F1", value |-> cents]

\* a tick that leaves the displays as they are
DisplaysKept(shown, pitchResult) == shown

\* private void ProcessAudioAndUpdateUI(float[] samples): the displays
\* afterwards; an exception of GetNoteFromFrequency leaves them as they are
DisplaysAfter(shown, pitchResult) ==
    IF ~pitchResult.IsValid \/ NotPositive(pitchResult.Frequency)
    THEN NeutralDisplay
    ELSE LET n == GetNoteFromFrequency(pitchResult.Frequency)
         IN IF Threw(n) THEN shown
            ELSE IF ~n.IsValid THEN NeutralDisplay
            ELSE [frequency |-> UpdateFrequencyDisplay(pitchResult.Frequency),
                  cents |-> UpdateCentsDisplay(n.CentsOffset),
                  pegs |-> UpdateGuitarPegs(n)]

\* private void StopTuner(): the window afterwards
StopTunerOf(w) == [w EXCEPT !.isRunning = FALSE, !.timer = FALSE]

WindowInit ==
    /\ DetectorIdle
    /\ NoteIdle
    /\ ShellIdle
    /\ BrowserIdle
    /\ EngineIdle

\* StartStopButton_Click: StartRecording() returns and the timer is started,
\* or it throws and the catch block calls StopTuner(); while running, the
\* click calls StopTuner()
StartStopButton_Click ==
    /\ \/ /\ ~mainWindow.isRunning
          /\ mainWindow.starts < MaxStarts
          /\ mainWindow' = [mainWindow EXCEPT !.isRunning = TRUE, !.timer = TRUE,
                                              !.starts = @ + 1,
                                              !.startedAt = Len(delivered)]
          /\ UNCHANGED display
       \/ /\ ~mainWindow.isRunning
          /\ mainWindow' = StopTunerOf(mainWindow)
          /\ display' = NeutralDisplay
       \/ /\ mainWindow.isRunning
          /\ mainWindow' = StopTunerOf(mainWindow)
          /\ display' = NeutralDisplay
    /\ UNCHANGED <<analysed, shellVars, outsideWindow>>

\* AudioEngine_RecordingStopped: Dispatcher.Invoke(() => StopTuner())
AudioEngine_RecordingStopped ==
    /\ mainWindow.starts > 0
    /\ mainWindow' = StopTunerOf(mainWindow)
    /\ display' = NeutralDisplay
    /\ UNCHANGED <<analysed, shellVars, outsideWindow>>

\* AudioEngine_AudioDataAvailable(sender, e), by a device that was started
\* and has not yet ended: an empty block is dropped, another one is stored
AudioEngine_AudioDataAvailable ==
    /\ mainWindow.starts > 0
    /\ Len(delivered) < MaxDeliveries
    /\ \E e \in WindowBlocks :
          \E stored \in {[serial |-> Len(delivered) + 1, samples |-> e.samples,
                          pitch |-> e.pitch]} :
             /\ delivered' = Append(delivered, stored)
             /\ audioBuffer' = IF Len(e.samples) = 0 THEN audioBuffer ELSE stored
    /\ UNCHANGED <<pcCapture, pcTick, bufferLock, eSamples, currentRMS,
                   bufferCopy, meterRMS, snapshot, detected>>
    /\ UNCHANGED <<windowVars, outsideWindow>>

\* UiUpdateTimer_Tick(sender, e), while the timer is started
UiUpdateTimer_Tick ==
    /\ mainWindow.timer
    /\ analysed' = [buffer |-> audioBuffer, starts |-> mainWindow.starts,
                    startedAt |-> mainWindow.startedAt]
    /\ display' = IF audioBuffer # NullBuffer /\ Len(audioBuffer.samples) > 0
                  THEN DisplaysAfter(display, audioBuffer.pitch)
                  ELSE NeutralDisplay
    /\ UNCHANGED <<mainWindow, shellVars, outsideWindow>>

WindowNext ==
    \/ StartStopButton_Click
    \/ AudioEngine_RecordingStopped
    \/ AudioEngine_AudioDataAvailable
    \/ UiUpdateTimer_Tick

WindowSpec == WindowInit /\ [][WindowNext]_vars

(***************************************************************************)
(* The browser shell: class AudioCapture (listed in src/WEB_README.md) and *)
(* the handlers of src/app.js.  JavaScript runs one handler at a time, so   *)
(* each handler is one step, and startTuner() is two when it awaits        *)
(* initialize().  A block stands for its samples by the result      *)
(* detectPitch gives on them.                                              *)
(***************************************************************************)
MaxInitialize == 2

\* the step of initialize() that throws: 1 getUserMedia, 2 new AudioContext,
\* 3 createMediaStreamSource, 4 createScriptProcessor; 0 when none does
FailingSteps == 0 .. 4

\* the open strings E2, A2, D3, G3, B3, E4, in cents from A4
OpenStrings == {-2900, -2400, -1900, -1400, -1000, -500}

\* the pitches of the valid blocks, in cents from A4: each open string in
\* tune, 20 cents sharp and 30 cents flat, and a B5
ValidTones == {s + off : s \in OpenStrings, off \in {0, 20, -30}} \cup {1400}

\* detectPitch results of the blocks: silence, a frequency out of range, an
\* A4 of confidence 0.5, and the valid ones
BrowserPitches ==
    {PitchResult(Num(0), Num(0), FALSE, Num(0)),
     PitchResult(Tone(2400), Num(0), FALSE, Num(1)),
     PitchResult(Tone(0), Fin(1, 2), FALSE, Num(1))}
        \cup {PitchResult(Tone(c), Num(1), TRUE, Num(1)) : c \in ValidTones}

\* frequency > 0
Positive(f) == IsTone(f) \/ NumGt(f, Num(0))

\* async initialize(), once getUserMedia has settled: the fields assigned
\* before the step that throws; id numbers what this call makes
initializeOf(c, failAt, id) ==
    [c EXCEPT !.mediaStream = IF failAt = 1 THEN @ ELSE id,
              !.audioContext = IF failAt \in 1 .. 2 THEN @ ELSE id,
              !.sourceNode = IF failAt \in 1 .. 3 THEN @ ELSE id,
              !.processorNode = IF failAt \in 1 .. 4 THEN @ ELSE id]

\* what that call makes in the browser; it succeeds when no step throws
mediaAfterInitialize(m, failAt, id) ==
    [m EXCEPT !.made = @ + 1,
              !.pending = @ - 1,
              !.streams = IF failAt = 1 THEN @ ELSE @ \cup {id},
              !.contexts = IF failAt \in 1 .. 2 THEN @ ELSE @ \cup {id},
              !.handlers = IF failAt = 0 THEN @ \cup {id} ELSE @,
              !.initialized = @ \/ failAt = 0]

\* start(): !this.audioContext || !this.sourceNode || !this.processorNode
NotInitialized(c) == c.audioContext = 0 \/ c.sourceNode = 0 \/ c.processorNode = 0

\* connect() and disconnect() throw for nodes of different audio contexts
SameContext(c) == c.sourceNode = c.audioContext /\ c.processorNode = c.audioContext

\* start() throws
startThrows(c) == NotInitialized(c) \/ ~SameContext(c)

\* start()
startOf(c) == IF startThrows(c) THEN c ELSE [c EXCEPT !.isRecording = TRUE]

mediaAfterStart(c, m) ==
    IF startThrows(c) THEN m ELSE [m EXCEPT !.connected = @ \cup {c.processorNode}]

\* stop(): nothing when not recording; an error of disconnect() is caught
stopOf(c) == IF ~c.isRecording THEN c ELSE [c EXCEPT !.isRecording = FALSE]

mediaAfterStop(c, m) ==
    IF c.isRecording /\ ~NotInitialized(c) /\ SameContext(c)
    THEN [m EXCEPT !.connected = @ \ {c.processorNode}]
    ELSE m

\* dispose()
disposeOf(c) ==
    [stopOf(c) EXCEPT !.processorNode = 0, !.sourceNode = 0, !.mediaStream = 0,
                      !.audioContext = 0, !.isRecording = FALSE]

mediaAfterDispose(c, m) ==
    [mediaAfterStop(c, m) EXCEPT !.handlers = @ \ {c.processorNode},
                                 !.streams = @ \ {c.mediaStream},
                                 !.contexts = @ \ {c.audioContext},
                                 !.initialized = FALSE]

\* function updateUI(note): the displays it leaves
PageOf(n) ==
    [detectedNote |-> noteKeyOf(n), detecting |-> FALSE,
     frequency |-> [format |-> "toFixed(2) Hz", value |-> n.actualFrequency],
     centsDisplay |-> [format |-> "toFixed(1) cents", value |-> n.centsOffset,
                       class |-> updateUI(n)],
     tuningNeedle |->
         NumMax(Num(0),
                NumMin(Num(100),
                       NumAdd(Num(50),
                              NumMul(NumDiv(n.centsOffset, Num(50)), Num(50))))),
     active |-> highlightString(n)]

\* a test that passes every result with a frequency above 0
MapsAnyPositive(pitch) == Positive(pitch.frequency)

\* processAudio(samples): result.isValid && result.frequency > 0
MapsNote(pitch) == pitch.isValid /\ Positive(pitch.frequency)

\* processAudio(samples) that resets the displays without a valid pitch
PageAfterReset(shown, pitch) ==
    IF MapsNote(pitch)
    THEN LET n == getNoteFromFrequency(pitch.frequency)
         IN IF n.isValid THEN PageOf(n) ELSE shown
    ELSE ResetPage

\* function processAudio(samples): the displays it leaves, pitch being the
\* result of detectPitch(samples)
PageAfter(shown, pitch) ==
    IF MapsNote(pitch)
    THEN LET n == getNoteFromFrequency(pitch.frequency)
         IN IF n.isValid THEN PageOf(n) ELSE shown
    ELSE IF shown.detectedNote = "--" THEN [shown EXCEPT !.detecting = TRUE]
         ELSE shown

\* startTuner() from 'audioCapture.onAudioData = ...' on: start() returns, or
\* it throws and the catch block runs
startedApp(a, c) ==
    IF startThrows(c)
    THEN [a EXCEPT !.status = "error", !.disabled = FALSE, !.isRunning = FALSE,
                   !.pc = "idle"]
    ELSE [a EXCEPT !.isRunning = TRUE, !.label = "FERMA", !.disabled = FALSE,
                   !.status = "success", !.pc = "idle"]

\* startTuner() up to 'await audioCapture.initialize()'
awaitingApp(a) ==
    [a EXCEPT !.status = "info", !.disabled = TRUE, !.pc = "awaiting"]

\* a method of AudioCapture is called: how it ends, and whether the object
\* was initialized when it was called
CaptureCall(op, threw, m) ==
    [op |-> op, threw |-> threw, initialized |-> m.initialized]

\* the callback is invoked: this.isRecording, and this.onAudioData is set
Invoked(c) == c.isRecording /\ c.onAudioData

BrowserInit ==
    /\ DetectorIdle
    /\ NoteIdle
    /\ ShellIdle
    /\ EngineIdle
    /\ audioCapture = NullCapture
    /\ media = NoMedia
    /\ captureCall = NoCaptureCall
    /\ \E supported \in BOOLEAN :
          app = [LoadedApp EXCEPT !.supported = supported, !.disabled = ~supported,
                                  !.status = IF supported THEN "info" ELSE "error"]
    /\ page = ResetPage
    /\ heard = NoEvent

\* async function toggleTuner(), a click on the start button: startTuner()
\* up to its await or to its end, or stopTuner()
toggleTuner ==
    /\ app.supported
    /\ ~app.disabled
    /\ \/ /\ ~app.isRunning
          /\ audioCapture = NullCapture
          /\ audioCapture' = NewAudioCapture
          /\ media' = [media EXCEPT !.pending = @ + 1]
          /\ captureCall' = CaptureCall("initialize", FALSE, media)
          /\ app' = awaitingApp(app)
          /\ UNCHANGED page
       \/ /\ ~app.isRunning
          /\ audioCapture # NullCapture
          /\ audioCapture' = startOf([audioCapture EXCEPT !.onAudioData = TRUE])
          /\ media' = mediaAfterStart(audioCapture, media)
          /\ captureCall' = CaptureCall("start", startThrows(audioCapture), media)
          /\ app' = [startedApp(app, audioCapture) EXCEPT
                        !.pc = app.pc,
                        !.overlapped = @ \/ app.pc = "awaiting"]
          /\ page' = IF startThrows(audioCapture) THEN page
                     ELSE [page EXCEPT !.detecting = TRUE]
       \/ /\ app.isRunning
          /\ audioCapture' = stopOf(audioCapture)
          /\ media' = mediaAfterStop(audioCapture, media)
          /\ captureCall' = CaptureCall("stop", FALSE, media)
          /\ app' = [app EXCEPT !.isRunning = FALSE, !.label = "AVVIA",
                                !.status = "info"]
          /\ page' = ResetPage
    /\ UNCHANGED <<heard, outsideBrowser>>

\* startTuner() from the return of 'await audioCapture.initialize()' on
startTunerResumes ==
    /\ app.pc = "awaiting"
    /\ media.pending > 0
    /\ \E failAt \in FailingSteps :
          \E c \in {initializeOf(audioCapture, failAt, media.made + 1)} :
          \E m \in {mediaAfterInitialize(media, failAt, media.made + 1)} :
             /\ IF failAt # 0
                THEN /\ audioCapture' = c
                     /\ media' = m
                     /\ UNCHANGED captureCall
                     /\ app' = [app EXCEPT !.status = "error", !.disabled = FALSE,
                                           !.pc = "idle"]
                     /\ UNCHANGED page
                ELSE /\ audioCapture' = startOf([c EXCEPT !.onAudioData = TRUE])
                     /\ media' = mediaAfterStart(c, m)
                     /\ captureCall' = CaptureCall("start", startThrows(c), m)
                     /\ app' = startedApp(app, c)
                     /\ page' = IF startThrows(c) THEN page
                                ELSE [page EXCEPT !.detecting = TRUE]
    /\ UNCHANGED <<heard, outsideBrowser>>

\* processorNode.onaudioprocess = (event) => { ... } of a processor node
\* whose context is open, and the callback app.js has set: processAudio()
\* when isRunning
onaudioprocess ==
    /\ audioCapture # NullCapture
    /\ \E k \in media.handlers \cap media.contexts :
          \E pitch \in BrowserPitches :
             LET callbacks == IF Invoked(audioCapture) THEN 1 ELSE 0
                 processed == callbacks = 1 /\ app.isRunning
             IN /\ heard' = [processor |-> k,
                             isRecording |-> audioCapture.isRecording,
                             isRunning |-> app.isRunning,
                             callbacks |-> callbacks,
                             detectPitch |-> IF processed THEN 1 ELSE 0,
                             getNoteFromFrequency |->
                                 IF processed /\ MapsNote(pitch) THEN 1 ELSE 0,
                             pitch |-> pitch]
                /\ page' = IF processed THEN PageAfter(page, pitch) ELSE page
    /\ UNCHANGED <<audioCapture, media, captureCall, app, outsideBrowser>>

\* window.addEventListener('beforeunload', ...): audioCapture.dispose().
\* The page lives on when the navigation does not replace it (a download,
\* for one) or when it comes back from the back/forward cache.
beforeunload ==
    /\ audioCapture # NullCapture
    /\ audioCapture' = disposeOf(audioCapture)
    /\ media' = mediaAfterDispose(audioCapture, media)
    /\ captureCall' = CaptureCall("dispose", FALSE, media)
    /\ UNCHANGED <<app, page, heard, outsideBrowser>>

BrowserNext ==
    \/ toggleTuner
    \/ startTunerResumes
    \/ onaudioprocess
    \/ beforeunload

BrowserSpec == BrowserInit /\ [][BrowserNext]_vars

(***************************************************************************)
(* An AudioCapture object on its own: its methods called in any order on   *)
(* the object new AudioCapture() returns.                                  *)
(***************************************************************************)
CaptureInit ==
    /\ DetectorIdle
    /\ NoteIdle
    /\ ShellIdle
    /\ EngineIdle
    /\ audioCapture = NewAudioCapture
    /\ media = NoMedia
    /\ captureCall = NoCaptureCall
    /\ app = LoadedApp
    /\ page = ResetPage
    /\ heard = NoEvent

\* the caller sets audioCapture.onAudioData
onAudioData ==
    /\ ~audioCapture.onAudioData
    /\ audioCapture' = [audioCapture EXCEPT !.onAudioData = TRUE]
    /\ UNCHANGED <<media, captureCall, app, page, heard, outsideBrowser>>

\* async initialize() is called and awaits getUserMedia
initialize ==
    /\ media.made + media.pending < MaxInitialize
    /\ media' = [media EXCEPT !.pending = @ + 1]
    /\ captureCall' = CaptureCall("initialize", FALSE, media)
    /\ UNCHANGED <<audioCapture, app, page, heard, outsideBrowser>>

\* getUserMedia settles and initialize() runs to its end
initializeResumes ==
    /\ media.pending > 0
    /\ \E failAt \in FailingSteps :
          /\ audioCapture' = initializeOf(audioCapture, failAt, media.made + 1)
          /\ media' = mediaAfterInitialize(media, failAt, media.made + 1)
    /\ UNCHANGED <<captureCall, app, page, heard, outsideBrowser>>

\* start()
start ==
    /\ audioCapture' = startOf(audioCapture)
    /\ media' = mediaAfterStart(audioCapture, media)
    /\ captureCall' = CaptureCall("start", startThrows(audioCapture), media)
    /\ UNCHANGED <<app, page, heard, outsideBrowser>>

\* stop()
stop ==
    /\ audioCapture' = stopOf(audioCapture)
    /\ media' = mediaAfterStop(audioCapture, media)
    /\ captureCall' = CaptureCall("stop", FALSE, media)
    /\ UNCHANGED <<app, page, heard, outsideBrowser>>

\* dispose()
dispose ==
    /\ audioCapture' = disposeOf(audioCapture)
    /\ media' = mediaAfterDispose(audioCapture, media)
    /\ captureCall' = CaptureCall("dispose", FALSE, media)
    /\ UNCHANGED <<app, page, heard, outsideBrowser>>

CaptureNext ==
    \/ onAudioData
    \/ initialize
    \/ initializeResumes
    \/ start
    \/ stop
    \/ dispose
    \/ onaudioprocess

CaptureSpec == CaptureInit /\ [][CaptureNext]_vars

(***************************************************************************)
(* Properties.                                                             *)
(***************************************************************************)
Called == outcome # "none"
Returned == outcome \in {"empty", "silence", "range", "full"}
Estimated == outcome \in {"range", "full"}

\* C1: for every non-empty buffer the returned isValid is true if and only
\* if the rms is at least the threshold, the returned frequency lies in
\* [minFrequency, maxFrequency] and the returned confidence exceeds 0.5.
C1_ValidIffAllThree ==
    (Returned /\ Len(input) > 0) =>
        (result.isValid <=>
            /\ ~NumLt(result.rms, detector.threshold)
            /\ NumGe(result.frequency, Num(detector.minFrequency))
            /\ NumLe(result.frequency, Num(detector.maxFrequency))
            /\ NumGt(result.confidence, Fin(1, 2)))

C1_Witness == Returned /\ Len(input) > 0 /\ result.isValid

\* C2: every call returns a result and throws nothing; an empty buffer
\* gives frequency 0, confidence 0 and isValid = false; silence, an
\* out-of-range pitch and a confidence of at most 0.5 each give a result
\* with isValid = false.
C2_AlwaysAResult ==
    Called =>
        /\ Returned
        /\ Len(input) = 0 =>
              /\ result.frequency = Num(0)
              /\ result.confidence = Num(0)
              /\ ~result.isValid
        /\ (Len(input) > 0 /\ NumLt(calculateRMS(input), detector.threshold)) =>
              ~result.isValid
        /\ OutOfRange(detector, result.frequency) => ~result.isValid
        /\ ~NumGt(result.confidence, Fin(1, 2)) => ~result.isValid

\* The same for the configurations of the data model only: there no call
\* throws.
AdmissibleAlwaysAResult == Admissible(detector) => C2_AlwaysAResult

\* C3: for every buffer of length >= 1 and every configuration, every
\* sample index read by the autocorrelation loop and by the confidence loop
\* lies in [0, len(samples)), and every index read from the autocorrelation
\* array by the peak search and by the interpolation lies in [0, maxLag].
C3_ReadsInBounds ==
    (Called /\ Len(input) >= 1) =>
        /\ reads.acLoop \subseteq 0 .. (Len(input) - 1)
        /\ reads.confidenceLoop \subseteq 0 .. (Len(input) - 1)
        /\ reads.peakSearch \subseteq 0 .. (autocorrelationLength(detector) - 1)
        /\ reads.interpolation \subseteq 0 .. (autocorrelationLength(detector) - 1)

\* The same for the configurations of the data model only: there the loop
\* bounds keep every read inside its array, also for a buffer shorter than
\* maxLag.
AdmissibleReadsInBounds == Admissible(detector) => C3_ReadsInBounds

\* C4: the silence return is taken exactly when rms < threshold; it carries
\* frequency 0, confidence 0, isValid = false and the computed rms; a buffer
\* whose rms equals the threshold goes on to pitch estimation.
C4_SilenceIsStrict ==
    (Called /\ Len(input) > 0) =>
        /\ outcome = "silence" <=> NumLt(calculateRMS(input), detector.threshold)
        /\ outcome = "silence" =>
              result = PitchResult(Num(0), Num(0), FALSE, calculateRMS(input))
        /\ calculateRMS(input) = detector.threshold =>
              outcome \in {"range", "full", "RangeError"}

C4_Witness ==
    /\ Admissible(detector)
    /\ Len(input) > 0
    /\ NumGt(detector.threshold, Num(0))
    /\ calculateRMS(input) = detector.threshold
    /\ Estimated
    /\ result.rms = detector.threshold

AllZero(samples) == \A i \in 1 .. Len(samples) : samples[i] = 0

\* C5: with a configuration of the data model (threshold anywhere in
\* [0, 1], 0 included), an all-zero buffer of any length gives
\* isValid = false, frequency = 0 and rms = 0.
C5_ZeroBufferGivesZero ==
    (Admissible(detector) /\ Called /\ AllZero(input)) =>
        /\ Returned
        /\ ~result.isValid
        /\ result.frequency = Num(0)
        /\ result.rms = Num(0)

\* C6: when the frequency estimated by autocorrelation is below minFrequency
\* or above maxFrequency, the call returns that frequency unchanged with
\* isValid = false, confidence = 0 and the computed rms.
C6_OutOfRangeReturnedAsIs ==
    (Estimated /\ OutOfRange(detector, autocorrelationPitchDetection(detector, input))) =>
        /\ outcome = "range"
        /\ result.frequency = autocorrelationPitchDetection(detector, input)
        /\ ~result.isValid
        /\ result.confidence = Num(0)
        /\ result.rms = calculateRMS(input)

\* an estimate above maxFrequency came back as it was
C6_Witness ==
    /\ Admissible(detector)
    /\ outcome = "range"
    /\ IsFin(result.frequency)
    /\ NumGt(result.frequency, Num(detector.maxFrequency))
    /\ result.frequency = autocorrelationPitchDetection(detector, input)

\* C7: whenever maxLag = floor(sampleRate / minFrequency) is not smaller
\* than the length of the buffer, the call reports isValid = false.
C7_ShortBufferNoDetection ==
    (Admissible(detector) /\ Returned /\ maxLagOf(detector).n >= Len(input)) =>
        ~result.isValid

\* C8: with a configuration of the data model every returned result has
\* frequency >= 0, 0 <= confidence <= 1 and rms >= 0.
C8_ResultWithinRanges ==
    (Admissible(detector) /\ Returned) =>
        /\ NumGe(result.frequency, Num(0))
        /\ NumGe(result.confidence, Num(0))
        /\ NumLe(result.confidence, Num(1))
        /\ ~IsNaN(result.rms) /\ ~NumLt(result.rms, Num(0))

\* C9: construction with a non-positive sampleRate, minFrequency or
\* maxFrequency, with minFrequency >= maxFrequency or with a threshold
\* outside [0, 1] fails, so every detector that exists has a configuration
\* of the data model.
C9_ConstructionRejectsBadConfig ==
    detector # NoDetector => Admissible(detector)

\* C10: a call on a buffer that was passed before returns what the first
\* call on it returned, whatever buffers were passed before or in between.
C10_SameBufferSameResult ==
    (Called /\ input = block /\ first # NoCall) =>
        first = [outcome |-> outcome, result |-> result]

\* block analysed again after another buffer, giving a valid detection
C10_Witness ==
    /\ input = block
    /\ interleaved
    /\ first # NoCall
    /\ outcome = "full"
    /\ result.isValid

ConfigurationFields == {"sampleRate", "minFrequency", "maxFrequency", "threshold"}

\* C11: a detectPitch call leaves the sample buffer it was given and the
\* four configuration fields of the detector as they were, and the detector
\* holds nothing but those four fields afterwards (no reference to the
\* buffer is kept).
C11_DetectChangesNothing ==
    [][detector # NoDetector =>
          /\ detector' = detector
          /\ block' = block
          /\ DOMAIN detector' = ConfigurationFields]_vars

\* a full analysis of the delivered block has returned
C11_Witness ==
    /\ outcome = "full"
    /\ input = block
    /\ Len(block) = MaxLen
    /\ DOMAIN detector = ConfigurationFields

Mapped == note # NoNote
MappedDesktop == musicalNote # NoNote

\* C12: for every frequency <= 0 the mapping returns isValid = false, both
\* names empty and octave, midiNote, frequency, actualFrequency and
\* centsOffset all equal to zero; for every frequency > 0 it returns
\* isValid = true.  Stated for the browser port and for the desktop port.
C12_InvalidNoteIsZeroed ==
    /\ Mapped =>
          IF NotPositive(actualFrequency)
          THEN /\ ~note.isValid
               /\ note.noteName = "" /\ note.noteNameAnglo = ""
               /\ note.octave = 0
               /\ HasProperty(note, "midiNote") /\ note.midiNote = 0
               /\ note.frequency = Num(0)
               /\ note.actualFrequency = Num(0)
               /\ note.centsOffset = Num(0)
          ELSE note.isValid
    /\ MappedDesktop =>
          IF NotPositive(actualFrequency)
          THEN musicalNote = MusicalNote("", "", 0, 0, Num(0), Num(0), Num(0), FALSE)
          ELSE ~Threw(musicalNote) /\ musicalNote.IsValid

\* the same without the midiNote of the browser port and for the
\* frequencies the desktop port maps without an exception
InvalidNoteIsZeroedButMidi ==
    /\ Mapped =>
          IF NotPositive(actualFrequency)
          THEN note = InvalidNote /\ ~HasProperty(note, "midiNote")
          ELSE note.isValid
    /\ (MappedDesktop /\ ~Threw(musicalNote)) =>
          IF NotPositive(actualFrequency)
          THEN musicalNote = MusicalNote("", "", 0, 0, Num(0), Num(0), Num(0), FALSE)
          ELSE musicalNote.IsValid

\* C13: for every frequency > 0, also one whose MIDI number is negative,
\* the mapping returns in both naming schemes the name at table index
\* midiNote mod 12 (one of the 12 chromatic names) and
\* octave = floor(midiNote / 12) - 1.
C13_ChromaticNameAndOctave ==
    /\ (Mapped /\ IsTone(actualFrequency)) =>
          /\ note.noteName = noteNamesItalian[(note.midiNote % 12) + 1]
          /\ note.noteNameAnglo = noteNamesAnglo[(note.midiNote % 12) + 1]
          /\ note.octave = (note.midiNote \div 12) - 1
    /\ (MappedDesktop /\ IsTone(actualFrequency)) =>
          /\ ~Threw(musicalNote)
          /\ musicalNote.NoteName = noteNamesItalian[(musicalNote.MidiNote % 12) + 1]
          /\ musicalNote.NoteNameAnglo = noteNamesAnglo[(musicalNote.MidiNote % 12) + 1]
          /\ musicalNote.Octave = (musicalNote.MidiNote \div 12) - 1

\* The same holds wherever the MIDI number is not negative.
ChromaticNameAndOctaveFromMidi0 ==
    /\ (Mapped /\ IsTone(actualFrequency) /\ note.midiNote >= 0) =>
          /\ note.noteName = noteNamesItalian[(note.midiNote % 12) + 1]
          /\ note.noteNameAnglo = noteNamesAnglo[(note.midiNote % 12) + 1]
          /\ note.octave = (note.midiNote \div 12) - 1
    /\ (MappedDesktop /\ IsTone(actualFrequency) /\ ~Threw(musicalNote)) =>
          /\ musicalNote.NoteName = noteNamesItalian[(musicalNote.MidiNote % 12) + 1]
          /\ musicalNote.NoteNameAnglo = noteNamesAnglo[(musicalNote.MidiNote % 12) + 1]
          /\ musicalNote.Octave = (musicalNote.MidiNote \div 12) - 1
          /\ (musicalNote.MidiNote >= 0 \/ musicalNote.MidiNote % 12 = 0)

\* the exact frequency of the equal-tempered note with MIDI number m, and
\* the distance in cents from frequency g up to frequency f
EqualTempered(m) == Tone(100 * (m - 69))
CentsBetween(f, g) == Num(f.n - g.n)

LabelClass(label) ==
    IF label = "In Tune" THEN "in-tune"
    ELSE IF label = "Sharp" THEN "sharp"
    ELSE IF label = "Flat" THEN "flat"
    ELSE "none"

\* C15 as stated: for every returned note, isInTune holds exactly when
\* isValid and |centsOffset| < 5, the tuning status is "In Tune" when
\* |centsOffset| < 5, "Sharp" when centsOffset >= 5 and "Flat" when
\* centsOffset <= -5, and the colour class of the browser shell agrees with
\* that status.
C15_StatusOfEveryNote ==
    /\ Mapped =>
          /\ (HasProperty(note, "isInTune") /\ note.isInTune) <=>
                (note.isValid /\ NumLt(NumAbs(note.centsOffset), Num(5)))
          /\ HasProperty(note, "tuningStatus")
          /\ note.tuningStatus =
                (IF NumLt(NumAbs(note.centsOffset), Num(5)) THEN "In Tune"
                 ELSE IF NumGe(note.centsOffset, Num(5)) THEN "Sharp" ELSE "Flat")
          /\ centsDisplay # "" => centsDisplay = LabelClass(note.tuningStatus)
    /\ (MappedDesktop /\ ~Threw(musicalNote)) =>
          /\ IsInTune(musicalNote) <=>
                (musicalNote.IsValid /\ NumLt(NumAbs(musicalNote.CentsOffset), Num(5)))
          /\ TuningStatus(musicalNote) =
                (IF NumLt(NumAbs(musicalNote.CentsOffset), Num(5)) THEN "In Tune"
                 ELSE IF NumGe(musicalNote.CentsOffset, Num(5)) THEN "Sharp"
                 ELSE "Flat")

\* C15 amended: the three-way status is that of a valid note; a note that
\* is not valid is never in tune, has no status (no tuningStatus property in
\* the browser port, the empty string in the desktop port) and is not shown.
C15_StatusOfValidNote ==
    /\ Mapped =>
          /\ (HasProperty(note, "isInTune") /\ note.isInTune) <=>
                (note.isValid /\ NumLt(NumAbs(note.centsOffset), Num(5)))
          /\ note.isValid =>
                /\ HasProperty(note, "tuningStatus")
                /\ note.tuningStatus =
                      (IF NumLt(NumAbs(note.centsOffset), Num(5)) THEN "In Tune"
                       ELSE IF NumGe(note.centsOffset, Num(5)) THEN "Sharp"
                       ELSE "Flat")
                /\ centsDisplay # "" => centsDisplay = LabelClass(note.tuningStatus)
          /\ ~note.isValid =>
                /\ ~HasProperty(note, "tuningStatus")
                /\ centsDisplay = ""
    /\ (MappedDesktop /\ ~Threw(musicalNote)) =>
          /\ IsInTune(musicalNote) <=>
                (musicalNote.IsValid /\ NumLt(NumAbs(musicalNote.CentsOffset), Num(5)))
          /\ TuningStatus(musicalNote) =
                (IF ~musicalNote.IsValid THEN ""
                 ELSE IF NumLt(NumAbs(musicalNote.CentsOffset), Num(5)) THEN "In Tune"
                 ELSE IF NumGe(musicalNote.CentsOffset, Num(5)) THEN "Sharp"
                 ELSE "Flat")

\* a note exactly 5 cents sharp is shown as sharp by both ports
C15_Witness ==
    /\ Mapped
    /\ note.isValid
    /\ note.centsOffset = Num(5)
    /\ note.tuningStatus = "Sharp"
    /\ centsDisplay = "sharp"
    /\ MappedDesktop
    /\ ~Threw(musicalNote)
    /\ TuningStatus(musicalNote) = "Sharp"

\* twice the frequency
Double(f) == Tone(f.n + 1200)

\* C16: for every frequency > 0, doubling the frequency keeps both names and
\* the centsOffset and raises the octave by exactly 1 and the midiNote by
\* exactly 12; 440 Hz maps to A, octave 4, MIDI 69, 0 cents and 880 Hz to A,
\* octave 5, MIDI 81.
C16_DoublingRaisesOneOctave ==
    (Mapped /\ IsTone(actualFrequency)) =>
        /\ \E doubled \in {getNoteFromFrequency(Double(actualFrequency))} :
              /\ doubled.noteName = note.noteName
              /\ doubled.noteNameAnglo = note.noteNameAnglo
              /\ doubled.centsOffset = note.centsOffset
              /\ doubled.octave = note.octave + 1
              /\ doubled.midiNote = note.midiNote + 12
        /\ actualFrequency = Tone(0) =>
              /\ note.noteNameAnglo = "A" /\ note.octave = 4
              /\ note.midiNote = 69 /\ note.centsOffset = Num(0)
        /\ actualFrequency = Tone(1200) =>
              /\ note.noteNameAnglo = "A" /\ note.octave = 5
              /\ note.midiNote = 81

\* The same holds wherever the MIDI number is not negative.
DoublingRaisesOneOctaveFromMidi0 ==
    (Mapped /\ IsTone(actualFrequency) /\ note.midiNote >= 0) =>
        C16_DoublingRaisesOneOctave

\* C17: raising the frequency never lowers the midiNote; while the midiNote
\* stays the same the centsOffset grows, being 0 at the exact frequency of
\* the note, positive up to the midpoint to the next note and negative from
\* that midpoint on; the midiNote grows by 1 exactly when the frequency
\* reaches the midpoint, where the centsOffset jumps to -50.
C17_CentsSawtooth ==
    (Mapped /\ IsTone(actualFrequency)) =>
        /\ actualFrequency = EqualTempered(note.midiNote) => note.centsOffset = Num(0)
        /\ \E above \in {getNoteFromFrequency(Tone(actualFrequency.n + 1))} :
              /\ above.midiNote >= note.midiNote
              /\ above.midiNote = note.midiNote =>
                    /\ NumGt(above.centsOffset, note.centsOffset)
                    /\ NumLt(note.centsOffset, Num(49))
              /\ above.midiNote # note.midiNote =>
                    /\ above.midiNote = note.midiNote + 1
                    /\ NumLt(note.centsOffset, Num(50))
                    /\ above.actualFrequency.n =
                          EqualTempered(note.midiNote).n + 50
                    /\ above.centsOffset = Num(-50)

\* a frequency one cent below a midpoint was mapped: 49 cents above its note
C17_Witness ==
    /\ Mapped
    /\ IsTone(actualFrequency)
    /\ note.centsOffset = Num(49)
    /\ getNoteFromFrequency(Tone(actualFrequency.n + 1)).midiNote = note.midiNote + 1

DeliveredBlocks == {delivered[i] : i \in 1 .. Len(delivered)}

\* the serial of the newest non-empty block among the first count delivered
\* ones, leaving out the one with serial pending; 0 if there is none
NewestBlock(count, pending) ==
    LET serials == {i \in 1 .. count :
                       Len(delivered[i].samples) > 0 /\ i # pending}
    IN IF serials = {} THEN 0
       ELSE CHOOSE i \in serials : \A j \in serials : j <= i

\* the buffer of a tick is one whole delivered block, and the rms read with
\* it is the rms of that block
CopyIsOneBlock(buffer, level) ==
    /\ buffer \in DeliveredBlocks
    /\ Len(buffer.samples) > 0
    /\ level = calculateRMS(buffer.samples)

\* C18 as stated: under every interleaving of the capture callback and the
\* timer tick, the buffer handed to DetectPitch is a complete copy of
\* exactly one delivered block, unchanged during the analysis, the rms read
\* at that tick is the rms of the same block, and the block is the most
\* recently delivered one (of the non-empty ones) when DetectPitch is called.
C18_NewestDeliveredBlockAnalysed ==
    /\ (pcTick = "process" /\ bufferCopy # NullBuffer) =>
          CopyIsOneBlock(bufferCopy, meterRMS)
    /\ detected # NoDetection =>
          /\ CopyIsOneBlock(detected.buffer, detected.rms)
          /\ detected.buffer.serial = NewestBlock(detected.delivered, 0)

\* C18 amended: the block is the newest non-empty one among those delivered
\* before the tick copied the buffer, not counting a block whose callback
\* had not yet stored it at that moment.
C18_NewestStoredBlockAnalysed ==
    /\ (pcTick = "process" /\ bufferCopy # NullBuffer) =>
          CopyIsOneBlock(bufferCopy, meterRMS)
    /\ detected # NoDetection =>
          /\ CopyIsOneBlock(detected.buffer, detected.rms)
          /\ detected.buffer.serial =
                NewestBlock(detected.snapshot.delivered, detected.snapshot.pending)

\* the second block was analysed with its own rms while the callback for a
\* third one was waiting for the lock during the copy
C18_Witness ==
    /\ detected # NoDetection
    /\ detected.buffer.serial = 2
    /\ detected.snapshot.pending = 3
    /\ detected.rms = calculateRMS(detected.buffer.samples)
    /\ detected.buffer.samples # delivered[1].samples

WithinUnit(x) == NumGe(x, Num(-1)) /\ NumLe(x, Num(1))

\* C19: every sample of every AudioDataAvailable event lies in [-1, 1], for
\* every 16-bit PCM value and every gain in [0, 10], also when the gain is
\* set while the buffer is being converted; a value outside [0, 10] is
\* never taken as the gain.
C19_DeliveredSamplesWithinUnit ==
    /\ WithinUnit(gain) \/ (NumGt(gain, Num(1)) /\ NumLe(gain, Num(10)))
    /\ \A i \in 1 .. Len(converted) : WithinUnit(converted[i])
    /\ \A i \in 1 .. Len(eventSamples) : WithinUnit(eventSamples[i])

\* an event whose first sample was clamped (full scale at gain 10) and whose
\* second sample was converted after the gain had been set to 1
C19_Witness ==
    /\ eventSamples = <<Num(1), Fin(1, 2)>>
    /\ gain = Num(1)
    /\ eBuffer = <<>>
\* both ports have analysed the same buffer under the same configuration
Compared == outcome # "none" /\ desktop # NoDesktopCall

\* either port ended with an exception instead of a return
Thrown(o) ==
    o \in {"RangeError", "DivideByZeroException", "OverflowException",
           "IndexOutOfRangeException"}

\* same return statement (or both throw), same isValid, frequency and
\* confidence
PortsAgree ==
    /\ Thrown(outcome) = Thrown(desktop.outcome)
    /\ ~Thrown(outcome) =>
          /\ outcome = desktop.outcome
          /\ result.isValid = desktop.result.IsValid
          /\ result.frequency = desktop.result.Frequency
          /\ result.confidence = desktop.result.Confidence

\* C20: for the same configuration and the same buffer, of odd or even
\* length, detectPitch (JavaScript) and DetectPitch (C#) take the same
\* branch and return the same isValid, frequency and confidence
C20_PortsEquivalent == Compared => PortsAgree

\* the two ports agree on every buffer of even length under a configuration
\* of the data model
PortsEquivalentOnEvenLength ==
    (Compared /\ Admissible(detector) /\ Len(input) % 2 = 0) => PortsAgree

\* under a configuration of the data model the two ports differ only when
\* the period is the truncated half of an odd length
PortsDifferAtHalfLength ==
    (Compared /\ Admissible(detector) /\ ~PortsAgree) =>
        /\ Len(input) % 2 = 1
        /\ outcome = "full" /\ desktop.outcome = "full"
        /\ periodOf(detector, result.frequency) = Num(Truncate(Len(input), 2))
        /\ result.frequency = desktop.result.Frequency
        /\ desktop.result.Confidence = Num(0)


\* the frequency lies exactly halfway between two notes and the lower of the
\* two is an even number of half steps from A4
EvenMidpoint(f) == IsTone(f) /\ f.n % 100 = 50 /\ ((f.n - 50) \div 100) % 2 = 0

\* the two ports return the same MIDI number, names and octave
SameNote ==
    /\ ~Threw(musicalNote)
    /\ note.midiNote = musicalNote.MidiNote
    /\ note.noteName = musicalNote.NoteName
    /\ note.noteNameAnglo = musicalNote.NoteNameAnglo
    /\ note.octave = musicalNote.Octave

\* C21: for every frequency > 0, getNoteFromFrequency (JavaScript) and
\* GetNoteFromFrequency (C#) return the same MIDI number, the same note
\* names and the same octave, also at a frequency exactly halfway between
\* two notes and at frequencies whose MIDI number is negative
C21_MappersEquivalent ==
    (Mapped /\ MappedDesktop /\ IsTone(actualFrequency)) => SameNote

\* away from the midpoints Math.round and Math.Round disagree on, the two
\* ports return the same note wherever the desktop port returns one
MappersEquivalentOffEvenMidpoint ==
    (/\ Mapped /\ MappedDesktop /\ IsTone(actualFrequency)
     /\ ~Threw(musicalNote) /\ ~EvenMidpoint(actualFrequency)) => SameNote

\* at such a midpoint of non-negative MIDI numbers the browser port returns
\* the upper note and the desktop port the lower one
MappersOneApartAtEvenMidpoint ==
    (/\ Mapped /\ MappedDesktop /\ EvenMidpoint(actualFrequency)
     /\ ~Threw(musicalNote)) =>
        note.midiNote = musicalNote.MidiNote + 1


Setters ==
    {"set_SampleRate", "set_Channels", "set_BufferMilliseconds",
     "set_SelectedDeviceNumber"}

\* C22: while the engine is recording, a call of one of the four setters
\* ends with InvalidOperationException and no step changes the four
\* settings; hence whenever IsRecording is true the settings equal what the
\* capture device was created with at StartRecording
C22_SettingsFrozenWhileRecording ==
    [][/\ audioEngine.isRecording =>
             /\ FormatOf(audioEngine') = FormatOf(audioEngine)
             /\ lastCall'.op \in Setters =>
                   lastCall'.exception = "InvalidOperationException"
       /\ (audioEngine'.isRecording /\ waveIn' # NoWaveIn) =>
             waveIn'.format = FormatOf(audioEngine')]_vars

\* a setter was refused during a recording that was started with settings
\* other than the defaults
C22_Witness ==
    /\ lastCall = EngineCall("set_Channels", "InvalidOperationException")
    /\ audioEngine.isRecording
    /\ waveIn # NoWaveIn
    /\ waveIn.state = "capturing"
    /\ waveIn.format.sampleRate = 48000
    /\ waveIn.format.channels = 2
    /\ waveIn.format = FormatOf(audioEngine)

ObjectDisposedChecked == {"StartRecording", "StopRecording"}

\* C24: after Dispose has returned IsRecording is false and the capture
\* device is released, also when stopping the device raised an error; every
\* later StartRecording or StopRecording throws ObjectDisposedException; a
\* second Dispose changes nothing
C24_DisposalIsTerminal ==
    [][/\ audioEngine'.disposed =>
             /\ ~audioEngine'.isRecording
             /\ waveIn' = NoWaveIn
       /\ audioEngine.disposed =>
             /\ lastCall'.op \in ObjectDisposedChecked =>
                   /\ lastCall'.exception = "ObjectDisposedException"
                   /\ UNCHANGED <<audioEngine, waveIn, abandoned>>
             /\ lastCall'.op = "Dispose" =>
                   /\ lastCall'.exception = "none"
                   /\ UNCHANGED <<audioEngine, waveIn, abandoned>>]_vars

\* everything C24 says but IsRecording = false holds: the device is
\* released, later calls throw, a second Dispose changes nothing
DisposalIsTerminalButIsRecording ==
    [][/\ audioEngine'.disposed => waveIn' = NoWaveIn
       /\ audioEngine.disposed =>
             /\ audioEngine'.disposed
             /\ lastCall'.op \in ObjectDisposedChecked =>
                   /\ lastCall'.exception = "ObjectDisposedException"
                   /\ UNCHANGED <<audioEngine, waveIn, abandoned>>
             /\ lastCall'.op = "Dispose" =>
                   /\ lastCall'.exception = "none"
                   /\ UNCHANGED <<audioEngine, waveIn, abandoned>>]_vars

\* IsRecording is false after Dispose whenever the engine was not recording
\* or the stop of the device returned
DisposedWhileStoppedIsNotRecording ==
    [][(lastCall'.op = "Dispose" /\ audioEngine'.disposed
        /\ ~audioEngine.isRecording) => ~audioEngine'.isRecording]_vars

\* C30: IsRecording is true whenever the capture device created by the most
\* recent StartRecording is capturing; the RecordingStopped notification of
\* a device stopped earlier does not set it to false while the new device
\* keeps capturing
C30_IsRecordingFollowsCurrentDevice ==
    (waveIn # NoWaveIn /\ waveIn.state = "capturing" /\ waveIn.subscribed) =>
        audioEngine.isRecording

\* IsRecording becomes false under a capturing device only through the
\* notification of a device that _waveIn no longer refers to
OnlyStaleNotificationsDesynchronise ==
    [][(/\ waveIn' # NoWaveIn /\ waveIn'.state = "capturing"
        /\ waveIn'.subscribed
        /\ audioEngine.isRecording /\ ~audioEngine'.isRecording) =>
           /\ lastCall'.op = "OnRecordingStopped"
           /\ abandoned'.notifying = abandoned.notifying - 1]_vars


(***************************************************************************)
(* The highlighted string of the two shells.                               *)
(***************************************************************************)
\* the note of the string each tuning peg of MainWindow belongs to
PegNote ==
    ("E" :> "E2") @@ ("A" :> "A2") @@ ("D" :> "D3") @@ ("G" :> "G3") @@
    ("B" :> "B3") @@ ("e" :> "E4")

\* the desktop shell has mapped a frequency to a note
DesktopNoteShown == musicalNote # NoNote /\ ~Threw(musicalNote) /\ musicalNote.IsValid

\* NoteNameAnglo and Octave of the MusicalNote the desktop shell shows
Shown(n) == n.NoteNameAnglo \o ToString(n.Octave)

\* the browser shell highlights a string exactly when letter name plus octave
\* of the note it shows equal that string's note
StringIsShownNote ==
    \A stringNote \in stringItems :
        stringNote \in activeStrings <=>
            /\ centsDisplay # ""
            /\ note.isValid
            /\ note.noteNameAnglo \o ToString(note.octave) = stringNote

\* C25: in the desktop shell a peg is highlighted only when the detected
\* note is the note of that peg's string, and at most one peg is highlighted
\* at any time; the browser shell highlights a string exactly when letter
\* name plus octave of the detected note equal that string's note
C25_HighlightedStringIsDetectedNote ==
    /\ \A peg \in activePegs :
           DesktopNoteShown /\ Shown(musicalNote) = PegNote[peg]
    /\ Cardinality(activePegs) <= 1
    /\ StringIsShownNote

\* the desktop shell highlights the peg whose target frequency is nearest to
\* the detected frequency among those less than 50 Hz away, whatever the
\* note, and never two pegs; when the note mapping has thrown, the pegs are
\* those of the note before
PegIsNearestWithin50Hz ==
    /\ Cardinality(activePegs) <= 1
    /\ \A i \in DOMAIN _guitarTuning :
           (_guitarTuning[i].Key \in activePegs /\ ~Threw(musicalNote)) =>
               /\ DesktopNoteShown
               /\ Within50(musicalNote.ActualFrequency, _guitarTuning[i].Value)
               /\ \A j \in DOMAIN _guitarTuning \ {i} :
                      Within50(musicalNote.ActualFrequency, _guitarTuning[j].Value) =>
                          Nearer(musicalNote.ActualFrequency,
                                 _guitarTuning[i].Value, _guitarTuning[j].Value)

\* C3 is detected and the desktop shell highlights the peg of the D string
PegOfAnotherNote ==
    /\ DesktopNoteShown
    /\ Shown(musicalNote) = "C3"
    /\ musicalNote.CentsOffset = Num(0)
    /\ activePegs = {"D"}

\* E2 is detected 20 cents flat: both shells highlight the low E string
LowEHighlighted ==
    /\ DesktopNoteShown
    /\ Shown(musicalNote) = "E2"
    /\ musicalNote.CentsOffset = Num(-20)
    /\ activePegs = {"E"}
    /\ activeStrings = {"E2"}


(***************************************************************************)
(* The peak search and the interpolation.                                  *)
(***************************************************************************)
\* the call went through the peak search (browser, desktop)
PeakSearched == outcome \in {"range", "full"}
PeakSearchedDesktop == desktop.outcome \in {"range", "full"}

\* the sum the desktop autocorrelation loop accumulates for one lag
LagSumDesktop(det, samples, lag) ==
    Num(SumProducts(samples, lag, 0, BufferSize(det, samples) - lag))

\* int peakLag of AutocorrelationPitchDetection
PeakLag(det, samples) ==
    FindFirstPeak(Autocorrelation(det, samples), MinLag(det), MaxLag(det))

\* C26: the peak lag chosen by the detector is a lag in [minLag, maxLag]
\* whose raw autocorrelation sum is the maximum over that range, and the
\* smallest such lag when several tie
C26_PeakIsFirstMaximum ==
    /\ PeakSearched =>
          LET peakLag == peakLagOf(detector, input)
          IN /\ peakLag \in LagRange(detector)
             /\ \A lag \in LagRange(detector) :
                    /\ NumLe(LagSum(detector, input, lag),
                             LagSum(detector, input, peakLag))
                    /\ lag < peakLag =>
                           NumLt(LagSum(detector, input, lag),
                                 LagSum(detector, input, peakLag))
    /\ PeakSearchedDesktop =>
          LET peakLag == PeakLag(detector, input)
          IN /\ peakLag \in MinLag(detector) .. MaxLag(detector)
             /\ \A lag \in MinLag(detector) .. MaxLag(detector) :
                    /\ NumLe(LagSumDesktop(detector, input, lag),
                             LagSumDesktop(detector, input, peakLag))
                    /\ lag < peakLag =>
                           NumLt(LagSumDesktop(detector, input, lag),
                                 LagSumDesktop(detector, input, peakLag))

\* The same for the configurations of the data model only: there the range
\* of lags is not empty and starts above 0.
AdmissiblePeakIsFirstMaximum == Admissible(detector) => C26_PeakIsFirstMaximum

\* two lags tie for the maximum and the peak is the smaller one, above minLag
TiedPeakAboveMinLag ==
    /\ Admissible(detector)
    /\ PeakSearched
    /\ PeakSearchedDesktop
    /\ LET peakLag == peakLagOf(detector, input)
       IN /\ peakLag > minLagOf(detector).n
          /\ peakLag = PeakLag(detector, input)
          /\ \E lag \in LagRange(detector) :
                 /\ lag > peakLag
                 /\ LagSum(detector, input, lag) = LagSum(detector, input, peakLag)


\* alpha - 2 * beta + gamma of parabolicInterpolation(data, index)
Denominator(data, index) ==
    NumAdd(NumSub(ElementAt(data, index - 1),
                  NumMul(Num(2), ElementAt(data, index))),
           ElementAt(data, index + 1))

\* the interpolation is applied to the peak and its denominator is 0
FlatPeak ==
    /\ PeakSearched
    /\ peakLagOf(detector, input) # 0
    /\ InterpolationApplied(autocorrelationLength(detector),
                            peakLagOf(detector, input))
    /\ NumEq(Denominator(autocorrelationOf(detector, input),
                         peakLagOf(detector, input)), Num(0))
FlatPeakDesktop ==
    /\ PeakSearchedDesktop
    /\ PeakLag(detector, input) \in 1 .. (MaxLag(detector) - 1)
    /\ NumEq(Denominator(Autocorrelation(detector, input),
                         PeakLag(detector, input)), Num(0))

\* C27: when the interpolation denominator is 0 the refined lag is the
\* integer peakLag, so the estimated frequency is sampleRate / peakLag and
\* no undefined or infinite value reaches the result
C27_FlatPeakKeepsIntegerLag ==
    /\ FlatPeak =>
          result.frequency =
              NumDiv(Num(detector.sampleRate), Num(peakLagOf(detector, input)))
    /\ FlatPeakDesktop =>
          desktop.result.Frequency =
              NumDiv(Num(detector.sampleRate), Num(PeakLag(detector, input)))

\* what the two ports return instead: 0.5 * (alpha - gamma) / 0 is NaN when
\* alpha = gamma and infinite otherwise, so the frequency is NaN or 0
FlatPeakGivesNaNOrZero ==
    /\ FlatPeak => result.frequency \in {NaN, Num(0)}
    /\ FlatPeakDesktop => desktop.result.Frequency \in {NaN, Num(0)}

\* a flat peak with alpha # gamma: the offset is infinite
FlatPeakInfiniteOffset ==
    /\ Admissible(detector)
    /\ FlatPeak
    /\ FlatPeakDesktop
    /\ result.frequency = Num(0)
    /\ desktop.result.Frequency = Num(0)

\* a flat peak with alpha = gamma: the offset is NaN
FlatPeakUndefinedOffset ==
    /\ Admissible(detector)
    /\ FlatPeak
    /\ FlatPeakDesktop
    /\ result.frequency = NaN
    /\ desktop.result.Frequency = NaN


\* parabolic interpolation is applied to the peak of the latest call
Interpolated ==
    /\ PeakSearched
    /\ peakLagOf(detector, input) # 0
    /\ InterpolationApplied(autocorrelationLength(detector),
                            peakLagOf(detector, input))

\* alpha and gamma of that interpolation
alphaOf(det, samples) ==
    ElementAt(autocorrelationOf(det, samples), peakLagOf(det, samples) - 1)
gammaOf(det, samples) ==
    ElementAt(autocorrelationOf(det, samples), peakLagOf(det, samples) + 1)

\* C28: whenever parabolic interpolation is applied, alpha and gamma are the
\* raw autocorrelation sums of the buffer at lags peakLag - 1 and
\* peakLag + 1, also when peakLag equals minLag
C28_NeighboursAreRawSums ==
    Interpolated =>
        /\ alphaOf(detector, input) =
               LagSum(detector, input, peakLagOf(detector, input) - 1)
        /\ gammaOf(detector, input) =
               LagSum(detector, input, peakLagOf(detector, input) + 1)

\* what the code does: gamma is the sum at peakLag + 1, alpha is the sum at
\* peakLag - 1 when that lag was scanned and the 0 the array was created
\* with when it was not
AlphaIsZeroAtMinLag ==
    Interpolated =>
        /\ gammaOf(detector, input) =
               LagSum(detector, input, peakLagOf(detector, input) + 1)
        /\ alphaOf(detector, input) =
               IF peakLagOf(detector, input) - 1 \in LagRange(detector)
               THEN LagSum(detector, input, peakLagOf(detector, input) - 1)
               ELSE Num(0)

\* the peak is at minLag and the sum at lag minLag - 1 is not 0
PeakAtMinLagUnsetNeighbour ==
    /\ Admissible(detector)
    /\ Interpolated
    /\ peakLagOf(detector, input) = minLagOf(detector).n
    /\ alphaOf(detector, input) = Num(0)
    /\ LagSum(detector, input, peakLagOf(detector, input) - 1) = Num(2)

\* the peak is above minLag: both neighbours were scanned
PeakAboveMinLagInterpolated ==
    /\ Admissible(detector)
    /\ Interpolated
    /\ peakLagOf(detector, input) > minLagOf(detector).n
    /\ alphaOf(detector, input) # Num(0)


(***************************************************************************)
(* The confidence of a result.                                             *)
(***************************************************************************)
\* the desktop call returned a result
ReturnedDesktop == desktop.outcome \in {"empty", "silence", "range", "full"}

\* period = floor(sampleRate / frequency) is not a number of samples with
\* 0 < period < len(samples) / 2
PeriodRejected(period, samples) ==
    \/ period.k # "fin"
    \/ period.n <= 0
    \/ period.n * 2 >= Len(samples)

\* the energy sum and the correlation sum over the first count samples,
\* count = min(len(samples) - period, 2 * period)
CountFor(samples, period) ==
    IF Len(samples) - period < period * 2 THEN Len(samples) - period
    ELSE period * 2
Energy(samples, period) == SumSquares(samples, 0, CountFor(samples, period))
Correlation(samples, period) ==
    SumProducts(samples, period, 0, CountFor(samples, period))

\* the correlation ratio clamped to [0, 1]
ClampedRatio(samples, period) ==
    LET ratio == Fin(Correlation(samples, period), Energy(samples, period))
    IN IF NumLt(ratio, Num(0)) THEN Num(0)
       ELSE IF NumGt(ratio, Num(1)) THEN Num(1) ELSE ratio

\* the claim for one result: its frequency, confidence and isValid
ConfidenceAsSpecified(frequency, confidence, isValid) ==
    LET period == periodOf(detector, frequency)
    IN /\ (PeriodRejected(period, input) \/ Energy(input, period.n) = 0) =>
              confidence = Num(0)
       /\ isValid =>
              /\ ~PeriodRejected(period, input)
              /\ confidence = ClampedRatio(input, period.n)

ValidInBothPorts ==
    /\ Admissible(detector)
    /\ outcome = "full"
    /\ desktop.outcome = "full"
    /\ result.isValid
    /\ desktop.result.IsValid
    /\ desktop.result.Confidence = result.confidence

\* the estimate passes the range test with a period of half the buffer or
\* more, and the confidence is 0
PeriodTooLongForBuffer ==
    /\ Admissible(detector)
    /\ outcome = "full"
    /\ periodOf(detector, result.frequency).k = "fin"
    /\ periodOf(detector, result.frequency).n > 0
    /\ periodOf(detector, result.frequency).n * 2 >= Len(input)
    /\ result.confidence = Num(0)


(***************************************************************************)
(* The capture devices of the AudioEngine.                                 *)
(***************************************************************************)
\* the devices that are not disposed, not stopped and subscribed to
\* OnDataAvailable and OnRecordingStopped of the engine
LiveSubscribed ==
    (IF waveIn # NoWaveIn /\ waveIn.subscribed /\ waveIn.state # "stopped"
     THEN 1 ELSE 0) + abandoned.capturing + abandoned.stopping

\* C31: after any sequence of StartRecording, StopRecording and Dispose at
\* most one capture device is alive and subscribed to the handlers of the
\* engine: a StartRecording that follows a StopRecording releases and
\* unsubscribes the device of the earlier StartRecording
C31_AtMostOneDeviceSubscribed == LiveSubscribed <= 1

\* two devices capture at the same time, both subscribed to the engine
TwoDevicesCapturing ==
    /\ waveIn # NoWaveIn
    /\ waveIn.state = "capturing"
    /\ waveIn.subscribed
    /\ abandoned.capturing = 1


(***************************************************************************)
(* The desktop shell across a stop and a restart, and its displays.        *)
(***************************************************************************)
\* the latest tick copied a block
BlockAnalysed == analysed.buffer # NullBuffer

\* C32: after the tuner has been stopped and started again, a tick never
\* analyses or displays a pitch from a block that was captured before the
\* restart: no note is shown until a block captured after the restart has
\* been delivered
C32_NoBlockFromBeforeRestart ==
    /\ (BlockAnalysed /\ analysed.starts > 1) =>
           analysed.buffer.serial > analysed.startedAt
    /\ (mainWindow.isRunning /\ mainWindow.starts > 1
        /\ Len(delivered) = mainWindow.startedAt) =>
           display = NeutralDisplay

\* what holds in every session: a tick analyses the block that was stored
\* last, whenever it was delivered, and before the first block of the first
\* session the displays are neutral
TickAnalysesLastStoredBlock ==
    /\ BlockAnalysed =>
           /\ analysed.buffer \in {delivered[i] : i \in DOMAIN delivered}
           /\ \A i \in DOMAIN delivered :
                  (i > analysed.buffer.serial /\ i <= Len(delivered)
                   /\ Len(delivered[i].samples) > 0) =>
                      audioBuffer.serial >= i
    /\ (mainWindow.starts <= 1 /\ Len(delivered) = 0) => display = NeutralDisplay

\* after a restart the tick shows the E2 of a block of the first session
StaleNoteAfterRestart ==
    /\ mainWindow.isRunning
    /\ mainWindow.starts = 2
    /\ Len(delivered) = mainWindow.startedAt
    /\ analysed.starts = 2
    /\ display.pegs = {"E"}


\* the buffer a tick analyses gives a detection with IsValid = true and
\* Frequency > 0 whose mapped note is valid
NoteDetected(buffer) ==
    /\ buffer # NullBuffer
    /\ Len(buffer.samples) > 0
    /\ buffer.pitch.IsValid
    /\ ~NotPositive(buffer.pitch.Frequency)
    /\ ~Threw(GetNoteFromFrequency(buffer.pitch.Frequency))
    /\ GetNoteFromFrequency(buffer.pitch.Frequency).IsValid

\* the frequency, the cents and the peg display each show something
AllDisplaysShow(shown) ==
    /\ shown.frequency # NeutralDisplay.frequency
    /\ shown.cents # NeutralDisplay.cents
    /\ shown.pegs # {}

\* C33: after every timer tick the frequency, cents and peg displays show a
\* note if and only if the buffer analysed at that tick produced a valid
\* detection with frequency > 0 whose mapped note is valid; otherwise all
\* of them are reset to their neutral state
C33_DisplaysShowNoteIffDetected ==
    [][UiUpdateTimer_Tick =>
          /\ AllDisplaysShow(display') <=> NoteDetected(audioBuffer)
          /\ ~NoteDetected(audioBuffer) => display' = NeutralDisplay]_vars

\* C33 as amended: after every tick the frequency and cents displays show
\* the frequency and the cents offset of the note of the analysed buffer if
\* and only if its detection is valid with frequency > 0 and the mapped
\* note is valid, and a peg is highlighted only then; otherwise all three
\* are in their neutral state
C33_DisplaysFollowDetection ==
    [][UiUpdateTimer_Tick =>
          /\ NoteDetected(audioBuffer) =>
                /\ display'.frequency =
                       UpdateFrequencyDisplay(audioBuffer.pitch.Frequency)
                /\ display'.cents =
                       UpdateCentsDisplay(
                           GetNoteFromFrequency(audioBuffer.pitch.Frequency).CentsOffset)
                /\ Cardinality(display'.pegs) <= 1
          /\ ~NoteDetected(audioBuffer) => display' = NeutralDisplay]_vars

\* after an invalid block out of range, a tick has analysed a valid B5:
\* frequency and cents are shown and no peg is lit
C33_Witness ==
    /\ BlockAnalysed
    /\ analysed.buffer.pitch.IsValid
    /\ analysed.buffer.pitch.Frequency = Tone(1400)
    /\ display.frequency = UpdateFrequencyDisplay(Tone(1400))
    /\ display.pegs = {}
    /\ Len(delivered) = 2
    /\ delivered[1].pitch.Frequency = Tone(2400)


\* C34: in the browser every block delivered while the tuner is running is
\* analysed exactly once (detectPitch, then getNoteFromFrequency only if
\* the result is valid with frequency > 0); between stopTuner and the next
\* successful start no block is analysed and the displays stay reset
\* ('--', '--- Hz', '0 cents', needle centred, no active string)
C34_BlocksAnalysedOnlyWhileRunning ==
    /\ [][onaudioprocess =>
             /\ app.isRunning =>
                   /\ heard'.detectPitch = 1
                   /\ heard'.getNoteFromFrequency =
                          IF heard'.pitch.isValid /\ Positive(heard'.pitch.frequency)
                          THEN 1 ELSE 0
             /\ ~app.isRunning =>
                   /\ heard'.detectPitch = 0
                   /\ heard'.getNoteFromFrequency = 0
                   /\ page' = page]_vars
    /\ [](~app.isRunning => page = ResetPage)

\* after stopTuner a block with a valid pitch has arrived and was not
\* analysed; the displays are reset
C34_Witness ==
    /\ captureCall.op = "stop"
    /\ ~app.isRunning
    /\ heard.processor # 0
    /\ ~heard.isRunning
    /\ heard.pitch.isValid
    /\ heard.detectPitch = 0
    /\ page = ResetPage

\* a block with a valid pitch was analysed while running, by one
\* detectPitch and one getNoteFromFrequency
BlockAnalysedWhileRunning ==
    /\ app.isRunning
    /\ heard.isRunning
    /\ heard.pitch.isValid
    /\ heard.detectPitch = 1
    /\ heard.getNoteFromFrequency = 1
    /\ page.detectedNote = "E2"

\* C35: an invalid detection leaves the displayed note, frequency, cents,
\* needle and highlighted string unchanged, until the next valid detection
\* or stopTuner
C35_InvalidDetectionKeepsDisplays ==
    [][(onaudioprocess /\ heard'.detectPitch = 1 /\ ~heard'.pitch.isValid) =>
          /\ page'.detectedNote = page.detectedNote
          /\ page'.frequency = page.frequency
          /\ page'.centsDisplay = page.centsDisplay
          /\ page'.tuningNeedle = page.tuningNeedle
          /\ page'.active = page.active]_vars

\* an invalid block was analysed and the E2 detected before is still shown
C35_Witness ==
    /\ app.isRunning
    /\ heard.detectPitch = 1
    /\ ~heard.pitch.isValid
    /\ page.detectedNote = "E2"
    /\ page.active = {"E2"}
    /\ page.frequency = [format |-> "toFixed(2) Hz", value |-> Tone(-2900)]

\* C36: audio capture is initialized whenever it is not yet initialized
\* successfully: after a failed initialization the next startTuner calls
\* initialize() again, and the tuner can still reach the running state
C36_FailedInitializeIsRetried ==
    [][(toggleTuner /\ ~app.isRunning /\ ~media.initialized) =>
          media'.pending > 0]_vars

\* initialize() is called once per page, and after a failed call nothing
\* is ever captured
InitializeIsCalledOnce ==
    /\ media.made + media.pending <= 1
    /\ (media.made = 1 /\ ~media.initialized) => ~audioCapture.isRecording

\* after a failed initialization a click has ended in the catch block of
\* startTuner: start() threw
StartThrowsAfterFailedInitialize ==
    /\ media.made = 1
    /\ ~media.initialized
    /\ captureCall.op = "start"
    /\ captureCall.threw
    /\ app.status = "error"
    /\ ~app.isRunning

\* C37: whenever no handler is executing, isRunning equals
\* audioCapture.isRecording (false when there is no capture object); every
\* completed startTuner leaves the start button enabled; while startTuner
\* awaits initialize() the button is disabled, so no second start or stop
\* interleaves
C37_RunningIsRecording ==
    /\ [](app.isRunning = (audioCapture # NullCapture /\ audioCapture.isRecording))
    /\ [](app.pc = "awaiting" => app.disabled)
    /\ [](~app.overlapped)
    /\ [][((toggleTuner /\ ~app.isRunning) \/ startTunerResumes) =>
             (app'.pc = "idle" => ~app'.disabled)]_vars

\* the same, but for the dispose() of the beforeunload handler, which
\* leaves isRunning as it is
RunningIsRecordingUnlessDisposed ==
    /\ [](captureCall.op # "dispose" =>
             app.isRunning = (audioCapture # NullCapture /\ audioCapture.isRecording))
    /\ [](app.pc = "awaiting" => app.disabled)
    /\ [](~app.overlapped)
    /\ [][((toggleTuner /\ ~app.isRunning) \/ startTunerResumes) =>
             (app'.pc = "idle" => ~app'.disabled)]_vars

\* the beforeunload handler has run while the tuner was running: isRunning
\* is true and nothing is captured
RunningAfterDispose ==
    /\ captureCall.op = "dispose"
    /\ app.isRunning
    /\ app.label = "FERMA"
    /\ ~audioCapture.isRecording
    /\ media.handlers = {}

\* startTuner has awaited initialize() and completed: running, recording,
\* the button enabled
StartTunerCompleted ==
    /\ app.pc = "idle"
    /\ app.isRunning
    /\ audioCapture.isRecording
    /\ ~app.disabled
    /\ media.made = 1
    /\ captureCall.op = "start"

\* startTuner is awaiting initialize(), the button disabled
AwaitingInitialize == app.pc = "awaiting" /\ app.disabled /\ media.pending = 1


\* the latest call was start() on an object that was not initialized
\* successfully, or not since its dispose()
StartedUninitialized == captureCall.op = "start" /\ ~captureCall.initialized

\* C38: on AudioCapture, start() before a successful initialize() or after
\* dispose() throws and leaves isRecording false; stop() while not
\* recording changes nothing; dispose() always ends with isRecording false
\* and the resources released; onAudioData is invoked only while
\* isRecording is true
C38_CaptureLifecycle ==
    /\ [](StartedUninitialized => captureCall.threw /\ ~audioCapture.isRecording)
    /\ [][(stop /\ ~audioCapture.isRecording) =>
             UNCHANGED <<audioCapture, media>>]_vars
    /\ [][dispose =>
             /\ ~audioCapture'.isRecording
             /\ media'.streams = {}
             /\ media'.contexts = {}
             /\ media'.handlers = {}
             /\ media'.connected = {}]_vars
    /\ [](heard.callbacks > 0 => heard.isRecording)

\* the same, dispose() releasing what the object refers to when it is called
DisposeReleasesCurrentResources ==
    /\ [](StartedUninitialized => captureCall.threw /\ ~audioCapture.isRecording)
    /\ [][(stop /\ ~audioCapture.isRecording) =>
             UNCHANGED <<audioCapture, media>>]_vars
    /\ [][dispose =>
             /\ audioCapture' = [NewAudioCapture EXCEPT
                                    !.onAudioData = audioCapture.onAudioData]
             /\ audioCapture.mediaStream \notin media'.streams
             /\ audioCapture.audioContext \notin media'.contexts
             /\ audioCapture.processorNode \notin media'.handlers
             /\ media.made <= 1 =>
                   /\ media'.streams = {}
                   /\ media'.contexts = {}
                   /\ media'.handlers = {}
                   /\ media'.connected = {}]_vars
    /\ [](heard.callbacks > 0 => heard.isRecording)

\* dispose() was called after two successful initialize() and the stream
\* and the context of the first are still open
StreamOpenAfterDispose ==
    /\ captureCall.op = "dispose"
    /\ audioCapture.mediaStream = 0
    /\ audioCapture.audioContext = 0
    /\ 1 \in media.streams
    /\ 1 \in media.contexts

\* start() has thrown after dispose() on an object that had been recording
StartThrewAfterDispose ==
    /\ StartedUninitialized
    /\ captureCall.threw
    /\ media.made > 0
    /\ media.streams = {}
    /\ heard.callbacks = 1

====
